---- MODULE Spec2Model ----
(***************************************************************************)
(* Feedback store (modules/feedback_logger.py), continuous-learning engine *)
(* (modules/continuous_learning.py), report pipeline (json_report_         *)
(* generator, ontology_processor, explainability) and the two writing      *)
(* endpoints of backend/main.py of the radiology assistant.                *)
(*                                                                         *)
(* Encoding.                                                               *)
(*  - A text (finding name, rule pattern) is a sequence of text units, so  *)
(*    that lower() and the substring test `a in b` are computed.           *)
(*  - A confidence is an integer number of hundredths (0.5 is 50); the     *)
(*    average of adjustments is the exact fraction sum/len and round(x, 2) *)
(*    rounds that fraction to the nearest hundredth.  The confidences of   *)
(*    the recorded reports (0.2, 0.5, 0.9) differ by 0.3, 0.4 or 0.7, and  *)
(*    the learning logs of SpecMine add differences of 0.1, 0.11, 0.15 and *)
(*    0.25, for which the comparison with 0.1 gives in binary floating     *)
(*    point what it gives exactly.  A confidence finer than a hundredth is *)
(*    a fraction [num, den] of hundredths.                                 *)
(*  - A value decoded from the model output carries its Python type.       *)
(*  - An optional argument (edited_report) is a sequence of length 0       *)
(*    (None) or 1.                                                         *)
(*  - A Python dict that is iterated (Counter, defaultdict) is a sequence  *)
(*    of <<key, value>> pairs in insertion order.                          *)
(*  - datetime.now() is the logical clock `now`.                           *)
(*  - The payloads explanations, user_feedback, ontology_mapping and       *)
(*    metadata of log_feedback are opaque to the store: they are copied    *)
(*    into the entry and never read, and are left out of it here.          *)
(*  - A log file is missing, holds json (its content is feedback_logs or  *)
(*    learning_data), holds text that is not json ("bad_json": json.load   *)
(*    raises JSONDecodeError) or bytes that are not UTF-8 ("bad_bytes":    *)
(*    reading raises UnicodeDecodeError).  The content variable of a file  *)
(*    that does not hold json is <<>>.                                     *)
(***************************************************************************)
EXTENDS Integers, Sequences, FiniteSets, TLC

VARIABLES
  feedback_logs,   \* content of outputs/feedback_logs.json
  learning_data,   \* content of outputs/learning_data.json
  rules,           \* ContinuousLearningEngine.rules of the engine instance
  hash_order,      \* iteration order of a set of str in this interpreter
  disk,            \* per file: missing, not decodable, or holding json
  now,             \* number of log_feedback calls made so far
  calls,           \* history: image and has_edits of every log_feedback call
  pending,         \* per caller: the log_feedback call it is in the middle of
  last             \* the last operation and what it returned or raised

vars ==
  <<feedback_logs, learning_data, rules, hash_order, disk, now, calls, pending,
    last>>

----------------------------------------------------------------------------
(* Bounds *)

\* log_feedback calls in a behaviour of SpecStore, and of Spec
MaxStoreCalls == 3
MaxCalls == 2

\* records in the learning log that SpecMine starts from
MaxMineEntries == 2

\* log_feedback calls in a behaviour of SpecFiles
MaxFileCalls == 1

\* requests that reach log_feedback in a behaviour of SpecService
MaxRequests == 1

----------------------------------------------------------------------------
(* Texts *)

\* A text is a sequence of units; no unit occurs inside another one, inside
\* a key of a learning record, an image name or the rendering of a number,
\* so containment of texts is containment of unit sequences.
Arrow == " -> "

\* str.lower() on one unit
Lower(c) ==
  CASE c = "Cardiomegaly" -> "cardiomegaly"
    [] c = "Mild "        -> "mild "
    [] c = "Atelectasis"  -> "atelectasis"
    [] c = "Pneumothorax" -> "pneumothorax"
    [] OTHER              -> c

lower(s) == [i \in 1..Len(s) |-> Lower(s[i])]

\* Python `a in b` on two texts
IsSubstring(a, b) ==
  \E k \in 0..(Len(b) - Len(a)) : \A i \in 1..Len(a) : b[k + i] = a[i]

Min(a, b) == IF a < b THEN a ELSE b
Max(a, b) == IF a > b THEN a ELSE b
Abs(a) == IF a < 0 THEN -a ELSE a

\* zip(a, b)
Zip(a, b) == [i \in 1..Min(Len(a), Len(b)) |-> <<a[i], b[i]>>]

\* the orders in which the elements of S can be enumerated
Orderings(S) ==
  {p \in [1..Cardinality(S) -> S] : \A i, j \in DOMAIN p : p[i] = p[j] => i = j}

RECURSIVE Concat(_)
Concat(ss) == IF ss = <<>> THEN <<>> ELSE Head(ss) \o Concat(Tail(ss))

----------------------------------------------------------------------------
(* Inputs *)

ImageNames == {"x.jpg", "y.jpg"}
EngineImageNames == {"x.jpg"}

Cardiomegaly      == <<"Cardiomegaly">>
cardiomegaly      == <<"cardiomegaly">>
Mild_Cardiomegaly == <<"Mild ", "Cardiomegaly">>

FindingNames == {Cardiomegaly, cardiomegaly, Mild_Cardiomegaly}

F(n, c) == [finding |-> n, confidence |-> c]

Rep(fs, imp, recs) == [findings |-> fs, impression |-> imp, recommendations |-> recs]

ReportA == Rep(<<F(Cardiomegaly, 50)>>, "normal", <<>>)
ReportB == Rep(<<F(Cardiomegaly, 90)>>, "normal", <<>>)
ReportC == Rep(<<F(Mild_Cardiomegaly, 50), F(cardiomegaly, 20),
                  F(Cardiomegaly, 50)>>, "enlarged", <<"follow-up">>)

Reports == {ReportA, ReportB, ReportC}

None == <<>>
Some(x) == <<x>>

\* the processes that call log_feedback at the same time
Callers == {"a", "b"}

\* the reports they pass as original_report
ConcurrentReports == {ReportA, ReportB}
OptReports == {None} \cup {Some(r) : r \in Reports}

----------------------------------------------------------------------------
(* The two log files *)

FeedbackLogFile == "feedback_logs.json"
LearningDataFile == "learning_data.json"
Files == {FeedbackLogFile, LearningDataFile}

\* open(path, "r", encoding="utf-8") and json.load: only JSONDecodeError
\* and FileNotFoundError are caught by the three loaders
LoadRaises(file) == disk[file] = "bad_bytes"

\* FeedbackLogger._load_logs, when it returns
_load_logs == IF disk[FeedbackLogFile] = "json" THEN feedback_logs ELSE <<>>

\* FeedbackLogger._load_learning_data, when it returns
_load_learning_data ==
  IF disk[LearningDataFile] = "json" THEN learning_data ELSE <<>>

\* ContinuousLearningEngine.load_learning_data, when it returns
load_learning_data ==
  IF disk[LearningDataFile] = "json" THEN learning_data ELSE <<>>

\* a file after json.dump into it
Written(d, file) == [d EXCEPT ![file] = "json"]

----------------------------------------------------------------------------
(* FeedbackLogger *)

\* FeedbackLogger._count_edits
_count_editsFindingsOnly(original, edited) ==
  LET of == original.findings
      ef == edited.findings
      pairs == Zip(of, ef)
  IN  Abs(Len(of) - Len(ef))
      + Cardinality({i \in DOMAIN pairs : pairs[i][1] # pairs[i][2]})

_count_edits(original, edited) ==
  LET of == original.findings
      ef == edited.findings
      pairs == Zip(of, ef)
  IN  Abs(Len(of) - Len(ef))
      + Cardinality({i \in DOMAIN pairs : pairs[i][1] # pairs[i][2]})
      + (IF original.impression # edited.impression THEN 1 ELSE 0)
      + (IF original.recommendations # edited.recommendations THEN 1 ELSE 0)

\* the entry built at the start of log_feedback.  Every report passed is a
\* non-empty dict, so `if edited_report` is `edited_report is not None`.
NewEntry(ts, image_name, original_report, edited_report) ==
  [timestamp       |-> ts,
   image           |-> image_name,
   original_report |-> original_report,
   edited_report   |-> edited_report,
   has_edits       |-> edited_report # None,
   edit_count      |-> IF edited_report # None
                       THEN _count_edits(original_report, edited_report[1])
                       ELSE 0]

\* the scan of log_feedback: index of the first entry of the image that has
\* no edits, 0 when there is none
ExistingEntryIndexAnyEdits(logs, image_name) ==
  LET hits == {i \in DOMAIN logs : logs[i].image = image_name}
  IN  IF hits = {} THEN 0 ELSE CHOOSE i \in hits : \A j \in hits : i <= j

ExistingEntryIndexEdited(logs, image_name) ==
  LET hits == {i \in DOMAIN logs :
                 logs[i].image = image_name /\ logs[i].has_edits}
  IN  IF hits = {} THEN 0 ELSE CHOOSE i \in hits : \A j \in hits : i <= j

ExistingEntryIndex(logs, image_name) ==
  LET hits == {i \in DOMAIN logs :
                 logs[i].image = image_name /\ ~logs[i].has_edits}
  IN  IF hits = {} THEN 0 ELSE CHOOSE i \in hits : \A j \in hits : i <= j

\* the update-or-append of log_feedback
UpsertAlwaysAppend(logs, entry) == Append(logs, entry)

UpsertRemovingOld(logs, entry) ==
  Append(SelectSeq(logs, LAMBDA old : old.image # entry.image), entry)

Upsert(logs, entry) ==
  LET i == ExistingEntryIndex(logs, entry.image)
  IN  IF i # 0 THEN [logs EXCEPT ![i] = entry] ELSE Append(logs, entry)

\* the learning entry built by _save_learning_data.  entry["edited_report"]
\* is always a key of the entry, so entry.get("edited_report", {}) is None
\* for an entry without edits and the .get on it raises AttributeError.
SaveLearningRaises(entry) == entry.edited_report = None

LearningEntry(entry) ==
  [timestamp         |-> entry.timestamp,
   image             |-> entry.image,
   original_findings |-> entry.original_report.findings,
   edited_findings   |-> entry.edited_report[1].findings,
   has_edits         |-> entry.has_edits,
   edit_count        |-> entry.edit_count]

\* FeedbackLogger.log_feedback: the exception it ends with ("no" when it
\* returns), the entry it built, and the files after it
LogFeedback(image_name, original_report, edited_report) ==
  LET entry == NewEntry(now + 1, image_name, original_report, edited_report)
      logs == Upsert(_load_logs, entry)
      Outcome(raised, fl, ld, d) ==
        [raised |-> raised, entry |-> entry,
         feedback_logs |-> fl, learning_data |-> ld, disk |-> d]
  IN  IF LoadRaises(FeedbackLogFile)
      THEN Outcome("UnicodeDecodeError", feedback_logs, learning_data, disk)
      ELSE IF SaveLearningRaises(entry)
      THEN Outcome("AttributeError", logs, learning_data,
                   Written(disk, FeedbackLogFile))
      ELSE IF LoadRaises(LearningDataFile)
      THEN Outcome("UnicodeDecodeError", logs, learning_data,
                   Written(disk, FeedbackLogFile))
      ELSE Outcome("no", logs,
                   Append(_load_learning_data, LearningEntry(entry)),
                   Written(Written(disk, FeedbackLogFile), LearningDataFile))

log_feedback(image_name, original_report, edited_report) ==
  LET out == LogFeedback(image_name, original_report, edited_report)
  IN  /\ now' = now + 1
      /\ calls' = Append(calls, [image |-> image_name,
                                 has_edits |-> edited_report # None])
      /\ feedback_logs' = out.feedback_logs
      /\ learning_data' = out.learning_data
      /\ disk' = out.disk
      /\ last' = [op |-> "log_feedback", raised |-> out.raised,
                  entry |-> out.entry]
      /\ UNCHANGED <<rules, hash_order, pending>>

\* log_feedback run by several callers at once.  Nothing locks the files:
\* a call is the four steps below, and the steps of different callers
\* interleave.  pending[caller] is None before the call and else holds the
\* position of the call (pc), the entry it built, the lists it loaded, the
\* place of its _save_logs among the writes (0 before it) and the
\* exception the call ended with.
Position(caller) == pending[caller][1]

At(caller, pc) == pending[caller] # None /\ Position(caller).pc = pc

\* the list that _save_logs of the caller writes back after the upsert
LoadedLogsReread(caller) == _load_logs

LoadedLogs(caller) == Position(caller).logs

\* lines 62-78: the entry is built and the feedback log is loaded
BeginLogFeedback(caller, image_name, original_report, edited_report) ==
  LET entry == NewEntry(now + 1, image_name, original_report, edited_report)
  IN  /\ pending[caller] = None
      /\ now' = now + 1
      /\ calls' = Append(calls, [image |-> image_name,
                                 has_edits |-> edited_report # None])
      /\ pending' =
           [pending EXCEPT ![caller] =
              Some([pc |-> IF LoadRaises(FeedbackLogFile)
                           THEN "done" ELSE "loaded",
                    entry |-> entry, logs |-> _load_logs, learning |-> <<>>,
                    order |-> 0,
                    raised |-> IF LoadRaises(FeedbackLogFile)
                               THEN "UnicodeDecodeError" ELSE "no"])]
      /\ last' = [op |-> "_load_logs", caller |-> caller]
      /\ UNCHANGED <<feedback_logs, learning_data, rules, hash_order, disk>>

\* lines 80-98: the scan, the update or append, and _save_logs
SaveLogs(caller) ==
  /\ At(caller, "loaded")
  /\ feedback_logs' = Upsert(LoadedLogs(caller), Position(caller).entry)
  /\ disk' = Written(disk, FeedbackLogFile)
  /\ pending' =
       [pending EXCEPT ![caller] =
          Some([Position(caller) EXCEPT
                  !.pc = "saved",
                  !.order = 1 + Cardinality({other \in Callers :
                                               /\ pending[other] # None
                                               /\ Position(other).order > 0})])]
  /\ last' = [op |-> "_save_logs", caller |-> caller]
  /\ UNCHANGED <<learning_data, rules, hash_order, now, calls>>

\* _save_learning_data, lines 155-169: the learning entry is built and the
\* learning log is loaded
LoadLearning(caller) ==
  LET raised ==
        IF SaveLearningRaises(Position(caller).entry) THEN "AttributeError"
        ELSE IF LoadRaises(LearningDataFile) THEN "UnicodeDecodeError"
        ELSE "no"
  IN  /\ At(caller, "saved")
      /\ pending' =
           [pending EXCEPT ![caller] =
              Some([Position(caller) EXCEPT
                      !.pc = IF raised = "no" THEN "learning loaded"
                             ELSE "done",
                      !.learning = IF raised = "no" THEN _load_learning_data
                                   ELSE <<>>,
                      !.raised = raised])]
      /\ last' = [op |-> "_load_learning_data", caller |-> caller]
      /\ UNCHANGED <<feedback_logs, learning_data, rules, hash_order, disk,
                     now, calls>>

\* _save_learning_data, lines 170-176, and the return of log_feedback
SaveLearning(caller) ==
  /\ At(caller, "learning loaded")
  /\ learning_data' = Append(Position(caller).learning,
                             LearningEntry(Position(caller).entry))
  /\ disk' = Written(disk, LearningDataFile)
  /\ pending' = [pending EXCEPT ![caller] =
                   Some([Position(caller) EXCEPT !.pc = "done"])]
  /\ last' = [op |-> "log_feedback", caller |-> caller, raised |-> "no",
              entry |-> Position(caller).entry]
  /\ UNCHANGED <<feedback_logs, rules, hash_order, now, calls>>

\* one step of one of the concurrent callers
Begin ==
  \E caller \in Callers, image_name \in ImageNames,
     original_report \in ConcurrentReports,
     edited_report \in {None, Some(ReportB)} :
       BeginLogFeedback(caller, image_name, original_report, edited_report)

Write == \E caller \in Callers : SaveLogs(caller)

Learn == \E caller \in Callers : LoadLearning(caller)

Finish == \E caller \in Callers : SaveLearning(caller)

\* a call of log_feedback while the engine is in use
Record ==
  /\ now < MaxCalls
  /\ \E image_name \in EngineImageNames, original_report \in Reports,
        edited_report \in OptReports :
          log_feedback(image_name, original_report, edited_report)

\* a call of log_feedback on any image
RecordImage ==
  /\ now < MaxStoreCalls
  /\ \E image_name \in ImageNames, original_report \in Reports,
        edited_report \in OptReports :
          log_feedback(image_name, original_report, edited_report)

\* a call of log_feedback by a process that found the files as they are
RecordFile ==
  /\ now < MaxFileCalls
  /\ \E image_name \in EngineImageNames, original_report \in Reports,
        edited_report \in OptReports :
          log_feedback(image_name, original_report, edited_report)

----------------------------------------------------------------------------
(* ContinuousLearningEngine: the three extraction passes *)

\* the keys of a dict in insertion order: the distinct elements of seq in
\* the order of their first occurrence
RECURSIVE OrderedKeys(_)
OrderedKeys(seq) ==
  IF seq = <<>> THEN <<>>
  ELSE LET front == OrderedKeys(SubSeq(seq, 1, Len(seq) - 1))
           x == seq[Len(seq)]
       IN  IF \E i \in DOMAIN front : front[i] = x THEN front
           ELSE Append(front, x)

\* str(entry) of a learning record, as far as a text can occur in it
FindingText(f) ==
  <<"{'finding': '">> \o f.finding
    \o <<"', 'confidence': ", ToString(f.confidence), "}">>

\* str() of the user_feedback of a learning record: {} for a record
\* without a comment, which is every record that the model's log_feedback
\* calls write
UserFeedbackText(entry) ==
  IF "user_feedback" \in DOMAIN entry /\ entry.user_feedback # <<>>
  THEN <<"{'comment': '">> \o entry.user_feedback \o <<"'}">>
  ELSE <<"{}">>

EntryText(entry) ==
  <<"{'timestamp': ", ToString(entry.timestamp), "'image': ", entry.image,
    "'original_findings': ">>
    \o Concat([i \in DOMAIN entry.original_findings |->
                 FindingText(entry.original_findings[i])])
    \o <<"'edited_findings': ">>
    \o Concat([i \in DOMAIN entry.edited_findings |->
                 FindingText(entry.edited_findings[i])])
    \o <<"'explanations': [], 'user_feedback': ">>
    \o UserFeedbackText(entry)
    \o <<"'ontology_mapping': {}",
         "'has_edits': ", ToString(entry.has_edits),
         "'edit_count': ", ToString(entry.edit_count), "}">>

\* ContinuousLearningEngine._count_pattern_occurrences
_count_pattern_occurrences(pattern, data) ==
  Cardinality({k \in DOMAIN data : IsSubstring(pattern, EntryText(data[k]))})

\* round(num / den, 2) for a value given in hundredths as the fraction
\* num / den, den > 0: the nearest hundredth, a tie going to the even one
Round2(num, den) ==
  LET q == num \div den
      r == num - q * den
  IN  IF 2 * r < den THEN q
      ELSE IF 2 * r > den THEN q + 1
      ELSE IF q % 2 = 0 THEN q ELSE q + 1

\* ContinuousLearningEngine._calculate_rule_confidence
_calculate_rule_confidence(pattern, data) ==
  LET pattern_count == _count_pattern_occurrences(pattern, data)
      total_entries == Cardinality({k \in DOMAIN data : data[k].has_edits})
  IN  IF total_entries = 0 THEN 0
      ELSE Round2(100 * pattern_count, total_entries)

\* the patterns counted by _extract_edit_patterns, in the order of the loop
EditEmits(data) ==
  Concat([k \in DOMAIN data |->
    IF ~data[k].has_edits THEN <<>>
    ELSE LET pairs == Zip(data[k].original_findings, data[k].edited_findings)
             Differ(p) == p[1] # p[2]
             changed == SelectSeq(pairs, Differ)
         IN  [i \in DOMAIN changed |->
                changed[i][1].finding \o <<Arrow>> \o changed[i][2].finding]])

Count(seq, x) == Cardinality({i \in DOMAIN seq : seq[i] = x})

\* ContinuousLearningEngine._extract_edit_patterns
_extract_edit_patterns(data) ==
  LET emits == EditEmits(data)
      keys == OrderedKeys(emits)
  IN  [i \in DOMAIN keys |-> <<keys[i], Count(emits, keys[i])>>]

\* abs(orig_conf - edit_conf) > 0.1
SignificantOrEqual(delta) == Abs(delta) >= 10

Significant(delta) == Abs(delta) > 10

\* adjustment = edit_conf - orig_conf
AdjustmentReversed(orig_f, edit_f) == orig_f.confidence - edit_f.confidence

Adjustment(orig_f, edit_f) == edit_f.confidence - orig_f.confidence

\* the <<finding_name, adjustment>> pairs collected by
\* _extract_confidence_patterns, in the order of the loop
ConfidenceEmits(data) ==
  Concat([k \in DOMAIN data |->
    LET pairs == Zip(data[k].original_findings, data[k].edited_findings)
        Moved(p) == Significant(p[1].confidence - p[2].confidence)
        moved == SelectSeq(pairs, Moved)
    IN  [i \in DOMAIN moved |->
           <<moved[i][1].finding, Adjustment(moved[i][1], moved[i][2])>>]])

RECURSIVE SumSeq(_)
SumSeq(seq) == IF seq = <<>> THEN 0 ELSE Head(seq) + SumSeq(Tail(seq))

\* ContinuousLearningEngine._extract_confidence_patterns: per finding name
\* the average adjustment, kept as the fraction num / den
_extract_confidence_patterns(data) ==
  LET emits == ConfidenceEmits(data)
      keys == OrderedKeys([i \in DOMAIN emits |-> emits[i][1]])
      Values(name) ==
        LET Named(e) == e[1] = name
            mine == SelectSeq(emits, Named)
        IN  [i \in DOMAIN mine |-> mine[i][2]]
  IN  [i \in DOMAIN keys |->
         <<keys[i], [num |-> SumSeq(Values(keys[i])),
                     den |-> Len(Values(keys[i]))]>>]

\* the <<name1, name2>> co-occurrences visited by the two nested loops of
\* _extract_finding_patterns, in the order of the loops
CoOccurrences(data) ==
  Concat([k \in DOMAIN data |->
    LET named == SelectSeq(data[k].original_findings,
                           LAMBDA f : f.finding # <<>>)
        finding_names == [i \in DOMAIN named |-> named[i].finding]
    IN  Concat([i \in DOMAIN finding_names |->
          [j \in 1..(Len(finding_names) - i) |->
             <<finding_names[i], finding_names[i + j]>>]])])

\* list(v) of a set of str: its elements in the interpreter's hash order
SetToList(S) == SelectSeq(hash_order, LAMBDA n : n \in S)

\* ContinuousLearningEngine._extract_finding_patterns
_extract_finding_patterns(data) ==
  LET co == CoOccurrences(data)
      keys == OrderedKeys(Concat([i \in DOMAIN co |-> <<co[i][1], co[i][2]>>]))
      Assoc(name) ==
        {co[i][2] : i \in {j \in DOMAIN co : co[j][1] = name}}
          \cup {co[i][1] : i \in {j \in DOMAIN co : co[j][2] = name}}
  IN  [i \in DOMAIN keys |-> <<keys[i], SetToList(Assoc(keys[i]))>>]

----------------------------------------------------------------------------
(* ContinuousLearningEngine: mine_rules *)

DefaultMinSupport == 2
MinSupports == {1, DefaultMinSupport}

\* the three loops of mine_rules that fill `rules`
CombineRules(data, min_support) ==
  LET edit_patterns == _extract_edit_patterns(data)
      confidence_patterns == _extract_confidence_patterns(data)
      finding_patterns == _extract_finding_patterns(data)
      EditKept(p) == p[2] >= min_support
      ConfKept(p) == Abs(p[2].num) > 10 * p[2].den
      AssocKept(p) == Len(p[2]) >= min_support
      e == SelectSeq(edit_patterns, EditKept)
      c == SelectSeq(confidence_patterns, ConfKept)
      a == SelectSeq(finding_patterns, AssocKept)
  IN  [i \in DOMAIN e |->
         [type |-> "edit_pattern", pattern |-> e[i][1], support |-> e[i][2],
          confidence |-> _calculate_rule_confidence(e[i][1], data)]]
      \o [i \in DOMAIN c |->
         [type |-> "confidence_adjustment", pattern |-> c[i][1],
          adjustment |-> Round2(c[i][2].num, c[i][2].den),
          support |-> _count_pattern_occurrences(c[i][1], data)]]
      \o [i \in DOMAIN a |->
         [type |-> "finding_association", pattern |-> a[i][1],
          associations |-> a[i][2], support |-> Len(a[i][2])]]

\* sorted(rules, key=support, reverse=True): a stable sort, so rules of
\* equal support keep their order
InsertBySupportBeforeEqual(sorted, r) ==
  LET ahead == {i \in DOMAIN sorted : sorted[i].support > r.support}
      n == Cardinality(ahead)
  IN  SubSeq(sorted, 1, n) \o <<r>> \o SubSeq(sorted, n + 1, Len(sorted))

InsertBySupport(sorted, r) ==
  LET ahead == {i \in DOMAIN sorted : sorted[i].support >= r.support}
      n == Cardinality(ahead)
  IN  SubSeq(sorted, 1, n) \o <<r>> \o SubSeq(sorted, n + 1, Len(sorted))

RECURSIVE SortBySupport(_)
SortBySupport(rs) ==
  IF rs = <<>> THEN <<>>
  ELSE InsertBySupport(SortBySupport(SubSeq(rs, 1, Len(rs) - 1)), rs[Len(rs)])

\* the value mine_rules computes from a non-empty log
MinedAccumulating(data, min_support) ==
  SortBySupport(rules \o CombineRules(data, min_support))

Mined(data, min_support) == SortBySupport(CombineRules(data, min_support))

\* ContinuousLearningEngine.mine_rules: what it returns, and self.rules
\* after it (an empty log returns [] and leaves self.rules alone)
MineReturn(data, min_support) ==
  IF data = <<>> THEN <<>> ELSE Mined(data, min_support)

MineRules(cached, data, min_support) ==
  IF data = <<>> THEN cached ELSE Mined(data, min_support)

mine_rules(min_support) ==
  /\ IF LoadRaises(LearningDataFile)
     THEN /\ rules' = rules
          /\ last' = [op |-> "mine_rules", min_support |-> min_support,
                      raised |-> "UnicodeDecodeError"]
     ELSE /\ rules' = MineRules(rules, load_learning_data, min_support)
          /\ last' = [op |-> "mine_rules", min_support |-> min_support,
                      raised |-> "no",
                      result |-> MineReturn(load_learning_data, min_support),
                      \* history: what the call before returned, when that
                      \* call was mine_rules with the same min_support
                      previous |-> IF /\ last.op = "mine_rules"
                                      /\ last.min_support = min_support
                                      /\ last.raised = "no"
                                   THEN <<last.result>> ELSE None]
  /\ UNCHANGED <<feedback_logs, learning_data, hash_order, disk, now, calls,
                 pending>>

Mine == \E min_support \in MinSupports : mine_rules(min_support)

----------------------------------------------------------------------------
(* ContinuousLearningEngine: apply_rules_to_report *)

\* max(0.0, min(1.0, x))
ClampUpperOnly(x) == Min(100, x)

Clamp(x) == Max(0, Min(100, x))

\* the test of apply_rules_to_report for one rule and one finding name
NameInPattern(finding_name, rule) ==
  IsSubstring(lower(finding_name), lower(rule.pattern))

\* the body of the loop over self.rules for one finding
ApplyRule(finding_name, improved_finding, rule) ==
  IF rule.type = "confidence_adjustment" /\ NameInPattern(finding_name, rule)
  THEN [k \in DOMAIN improved_finding
                 \cup {"confidence_adjusted", "adjustment_reason"} |->
          CASE k = "confidence" ->
                 Round2(Clamp(improved_finding.confidence + rule.adjustment),
                        1)
            [] k = "confidence_adjusted" -> TRUE
            \* "Based on learned pattern: " followed by the pattern
            [] k = "adjustment_reason" -> rule.pattern
            [] OTHER -> improved_finding[k]]
  ELSE improved_finding

RECURSIVE ApplyRules(_, _, _)
ApplyRules(finding_name, improved_finding, rs) ==
  IF rs = <<>> THEN improved_finding
  ELSE ApplyRules(finding_name,
                  ApplyRule(finding_name, improved_finding, Head(rs)),
                  Tail(rs))

\* ContinuousLearningEngine._rule_applies
_rule_appliesAnyType(report, rule) ==
  \E i \in DOMAIN report.findings :
     IsSubstring(lower(rule.pattern), lower(report.findings[i].finding))

_rule_applies(report, rule) ==
  /\ rule.type = "confidence_adjustment"
  /\ \E i \in DOMAIN report.findings :
        IsSubstring(lower(rule.pattern), lower(report.findings[i].finding))

\* the report apply_rules_to_report returns when self.rules is rs
ImprovedReport(rs, report) ==
  [k \in DOMAIN report \cup {"rules_applied"} |->
     CASE k = "findings" ->
            [i \in DOMAIN report.findings |->
               ApplyRules(report.findings[i].finding, report.findings[i], rs)]
       [] k = "rules_applied" ->
            Cardinality({i \in DOMAIN rs : _rule_applies(report, rs[i])})
       [] OTHER -> report[k]]

\* self.rules once `if not self.rules: self.mine_rules()` is over
RulesUsedAlwaysMined(cached, data) ==
  MineRules(cached, data, DefaultMinSupport)

RulesUsed(cached, data) ==
  IF cached = <<>> THEN MineRules(cached, data, DefaultMinSupport)
  ELSE cached

\* ContinuousLearningEngine.apply_rules_to_report
apply_rules_to_report(report) ==
  LET used == RulesUsed(rules, load_learning_data)
  IN  /\ IF rules = <<>> /\ LoadRaises(LearningDataFile)
         THEN /\ rules' = rules
              /\ last' = [op |-> "apply_rules_to_report", report |-> report,
                          raised |-> "UnicodeDecodeError"]
         ELSE /\ rules' = used
              /\ last' = [op |-> "apply_rules_to_report", report |-> report,
                          raised |-> "no",
                          result |-> ImprovedReport(used, report)]
      /\ UNCHANGED <<feedback_logs, learning_data, hash_order, disk, now,
                     calls, pending>>

Apply == \E report \in Reports : apply_rules_to_report(report)

----------------------------------------------------------------------------
(* FeedbackLogger: get_feedback_statistics *)

\* the dict returned for the loaded logs; the two ratios in hundredths
FeedbackStatistics(logs) ==
  LET entries_with_edits == Cardinality({i \in DOMAIN logs : logs[i].has_edits})
      total_edits == SumSeq([i \in DOMAIN logs |-> logs[i].edit_count])
  IN  IF logs = <<>>
      THEN [total_entries           |-> 0,
            entries_with_edits      |-> 0,
            total_edits             |-> 0,
            average_edits_per_entry |-> 0]
      ELSE [total_entries           |-> Len(logs),
            entries_with_edits      |-> entries_with_edits,
            total_edits             |-> total_edits,
            average_edits_per_entry |-> Round2(100 * total_edits, Len(logs)),
            edit_rate               |-> Round2(100 * entries_with_edits,
                                               Len(logs))]

\* FeedbackLogger.get_feedback_statistics
get_feedback_statistics ==
  /\ IF LoadRaises(FeedbackLogFile)
     THEN last' = [op |-> "get_feedback_statistics",
                   raised |-> "UnicodeDecodeError"]
     ELSE last' = [op |-> "get_feedback_statistics", raised |-> "no",
                   result |-> FeedbackStatistics(_load_logs)]
  /\ UNCHANGED <<feedback_logs, learning_data, rules, hash_order, disk, now,
                 calls, pending>>

----------------------------------------------------------------------------
(* json_report_generator: decoded model output and its normalisation *)

\* A value decoded by json.loads carries its Python type, so that
\* isinstance and float() are computed.  A number is in hundredths.
JStr(s) == [type |-> "str", value |-> s]
JNum(n) == [type |-> "number", value |-> n]
JNull == [type |-> "null"]
JList(items) == [type |-> "list", value |-> items]
JDict(d) == [type |-> "dict", value |-> d]

isinstance(j, t) == j.type = t

EmptyDict == <<>>

\* dict.get(key, default)
Get(d, key, default) == IF key \in DOMAIN d THEN d[key] ELSE default

DefaultConfidence == 50

\* the texts float() parses, with their values
FloatOfStr == [s \in {"0.9"} |-> 90]

\* float(j): the exception it raises, "no" when it returns
FloatRaises(j) ==
  CASE j.type = "number" -> "no"
    [] j.type = "str"    -> IF j.value \in DOMAIN FloatOfStr
                            THEN "no" ELSE "ValueError"
    [] OTHER             -> "TypeError"

float(j) == IF j.type = "number" THEN j.value ELSE FloatOfStr[j.value]

\* the recommendations of the normalised report
NormalizedRecommendations(report) ==
  IF "recommendations" \notin DOMAIN report THEN <<>>
  ELSE IF isinstance(report.recommendations, "list")
  THEN report.recommendations.value
  ELSE IF isinstance(report.recommendations, "str")
  THEN <<report.recommendations>>
  ELSE <<>>

\* _normalize_report_structure: the exception it ends with, or the report
\* it returns.  `report` is the decoded dict, a function on its keys.
_normalize_report_structure(report) ==
  LET items ==
        IF "findings" \in DOMAIN report /\ isinstance(report.findings, "list")
        THEN SelectSeq(report.findings.value,
                       LAMBDA finding : isinstance(finding, "dict"))
        ELSE <<>>
      Confidence(finding) ==
        Get(finding.value, "confidence", JNum(DefaultConfidence))
      raising == {i \in DOMAIN items : FloatRaises(Confidence(items[i])) # "no"}
      first == CHOOSE i \in raising : \A j \in raising : i <= j
  IN  IF raising # {}
      THEN [raised |-> FloatRaises(Confidence(items[first]))]
      ELSE [raised |-> "no",
            result |->
              [findings |->
                 [i \in DOMAIN items |->
                    [finding    |-> Get(items[i].value, "finding", JStr(<<>>)),
                     location   |-> Get(items[i].value, "location", JStr("")),
                     evidence   |-> Get(items[i].value, "evidence", JStr(<<>>)),
                     confidence |-> float(Confidence(items[i])),
                     severity   |-> Get(items[i].value, "severity",
                                        JStr("unknown"))]],
               impression      |-> Get(report, "impression", JStr("")),
               recommendations |-> NormalizedRecommendations(report),
               metadata        |->
                 IF "metadata" \in DOMAIN report
                    /\ isinstance(report.metadata, "dict")
                 THEN report.metadata.value
                 ELSE EmptyDict]]

\* the normalised report of a payload whose texts are str, as the plain
\* records the rest of the pipeline works on
PlainFinding(f) ==
  [finding    |-> f.finding.value,
   location   |-> f.location.value,
   evidence   |-> f.evidence.value,
   confidence |-> f.confidence,
   severity   |-> f.severity.value]

Plain(normalized) ==
  [findings        |-> [i \in DOMAIN normalized.findings |->
                          PlainFinding(normalized.findings[i])],
   impression      |-> normalized.impression.value,
   recommendations |-> [i \in DOMAIN normalized.recommendations |->
                          normalized.recommendations[i].value],
   metadata        |-> normalized.metadata]

----------------------------------------------------------------------------
(* json_report_generator: generate_json_report *)

\* The stripped response text is a sequence of units: a fence marker, a
\* complete JSON document, prose, or a piece of text that is not JSON.
\* the markers of a fenced code block, with and without the word json
FenceJson == [u |-> "fence json"]
Fence == [u |-> "fence"]
Prose == [u |-> "Here is the report:"]
NotJson == [u |-> "{'findings': ["]
Document(payload) == [u |-> "json", payload |-> payload]

\* a unit that lost its last character
CutShort(unit) == [u |-> "cut"]

\* json.loads(text) succeeds on one complete document
Decodable(text) == Len(text) = 1 /\ text[1].u = "json"

\* the plain marker occurs in unit: the json marker starts with it
HasFence(unit) == unit.u \in {FenceJson.u, Fence.u}

\* the fallback of generate_json_report: the text between the first json
\* marker (else the first marker) and the next marker; when none follows,
\* find returns -1 and the slice drops the last character
StripFence(text) ==
  LET json_fences == {i \in DOMAIN text : text[i] = FenceJson}
      fences == {i \in DOMAIN text : HasFence(text[i])}
      opening == IF json_fences # {} THEN json_fences ELSE fences
      json_start == (CHOOSE i \in opening : \A j \in opening : i <= j) + 1
      closing == {i \in fences : i >= json_start}
      json_end == CHOOSE i \in closing : \A j \in closing : i <= j
      rest == SubSeq(text, json_start, Len(text))
  IN  IF fences = {} THEN text
      ELSE IF closing # {} THEN SubSeq(text, json_start, json_end - 1)
      ELSE IF rest = <<>> THEN <<>>
      ELSE [rest EXCEPT ![Len(rest)] = CutShort(rest[Len(rest)])]

\* the two json.loads of generate_json_report
DecodeWithoutFallback(text) ==
  IF Decodable(text)
  THEN [raised |-> "no", report |-> text[1].payload]
  ELSE [raised |-> "ValueError"]

Decode(text) ==
  IF Decodable(text)
  THEN [raised |-> "no", report |-> text[1].payload]
  ELSE IF Decodable(StripFence(text))
  THEN [raised |-> "no", report |-> StripFence(text)[1].payload]
  ELSE [raised |-> "ValueError"]

\* generate_json_report on what the one chat.completions.create call gave:
\* an exception of the client or a response text
generate_json_report(output) ==
  CASE output.kind = "RateLimitError" -> [raised |-> "RuntimeError"]
    [] output.kind = "OpenAIError"    -> [raised |-> "RuntimeError"]
    [] output.kind = "text" ->
         IF Decode(output.text).raised # "no"
         THEN Decode(output.text)
         ELSE _normalize_report_structure(Decode(output.text).report)

----------------------------------------------------------------------------
(* OntologyProcessor *)

\* assets/radlex_terms.json: condition -> keywords, in file order
RadlexTerms ==
  << <<"Cardiomegaly", <<cardiomegaly, <<"enlarged", " heart">>>>>>,
     <<"Pleural Effusion", << <<"effusion">> >>>> >>

\* result of simulate_chexpert_labels for the uploaded file
ChexpertLabelLists ==
  { <<Cardiomegaly, <<"Atelectasis">>>>,
    << <<"Atelectasis">>, <<"Pneumothorax">> >> }

\* a confidence given exactly, as a fraction of hundredths
Exact(c) == [num |-> c, den |-> 1]

BothBoost == 20
OneBoost == 10

\* OntologyProcessor._calculate_mapping_confidence, in hundredths
_calculate_mapping_confidence(radlex_matches, chexpert_matches, original) ==
  LET num == original.num
      den == original.den
      boost == IF radlex_matches # <<>> /\ chexpert_matches # <<>>
               THEN BothBoost
               ELSE IF radlex_matches # <<>> \/ chexpert_matches # <<>>
               THEN OneBoost ELSE 0
      \* min(1.0, base_confidence + boost), applied only when there is a
      \* match
      base_num == IF boost = 0 THEN num ELSE Min(100 * den, num + boost * den)
  IN  Round2(base_num, den)

\* the ontology_mapping of one finding; original_confidence is the
\* finding's confidence.  radlex_keywords is list(set(...)), kept as the
\* set.
OntologyMapping(finding, radlex_terms, chexpert_labels, original_confidence) ==
  LET combined_text ==
        lower(finding.finding) \o <<" ">> \o lower(finding.evidence)
      hits ==
        Concat([c \in DOMAIN radlex_terms |->
          LET keywords == radlex_terms[c][2]
              matching == SelectSeq(keywords,
                            LAMBDA keyword :
                              IsSubstring(lower(keyword), combined_text))
          IN  [k \in DOMAIN matching |-> <<radlex_terms[c][1], matching[k]>>]])
      matched_conditions == OrderedKeys([h \in DOMAIN hits |-> hits[h][1]])
      chexpert_matches ==
        SelectSeq(chexpert_labels,
                  LAMBDA label : IsSubstring(lower(label), combined_text))
  IN  [radlex_conditions  |-> matched_conditions,
       radlex_keywords    |-> {hits[h][2] : h \in DOMAIN hits},
       chexpert_labels    |-> chexpert_matches,
       mapping_confidence |->
         _calculate_mapping_confidence(matched_conditions, chexpert_matches,
                                       original_confidence)]

\* finding.copy() with one more key
WithKey(finding, key, value) ==
  [k \in DOMAIN finding \cup {key} |->
     IF k = key THEN value ELSE finding[k]]

\* OntologyProcessor.map_findings_to_ontology, where confidences[i] is
\* findings[i].get("confidence", 0.5) as a fraction of hundredths
MapFindings(findings, radlex_terms, chexpert_labels, confidences) ==
  [i \in DOMAIN findings |->
     WithKey(findings[i], "ontology_mapping",
             OntologyMapping(findings[i], radlex_terms, chexpert_labels,
                             confidences[i]))]

\* the same on the findings of a report whose confidences are hundredths
map_findings_to_ontology(findings, radlex_terms, chexpert_labels) ==
  MapFindings(findings, radlex_terms, chexpert_labels,
              [i \in DOMAIN findings |-> Exact(findings[i].confidence)])

LowConfidenceWarning == 30

\* OntologyProcessor.validate_findings: the number of warnings decides
ValidateFindings(findings) ==
  LET unmapped == {i \in DOMAIN findings :
                     /\ findings[i].ontology_mapping.radlex_conditions = <<>>
                     /\ findings[i].ontology_mapping.chexpert_labels = <<>>}
      low == {i \in DOMAIN findings :
                findings[i].confidence < LowConfidenceWarning}
  IN  [valid    |-> unmapped = {} /\ low = {},
       warnings |-> Cardinality(unmapped) + Cardinality(low)]

\* OntologyProcessor.get_ontology_statistics: the counts
OntologyStatistics(findings) ==
  LET radlex_mapped ==
        Cardinality({i \in DOMAIN findings :
                       findings[i].ontology_mapping.radlex_conditions # <<>>})
      chexpert_mapped ==
        Cardinality({i \in DOMAIN findings :
                       findings[i].ontology_mapping.chexpert_labels # <<>>})
  IN  [total_findings  |-> Len(findings),
       mapped_findings |-> radlex_mapped + chexpert_mapped]

----------------------------------------------------------------------------
(* ExplainabilityEngine *)

HighConfidence == 70
MediumConfidence == 40

\* the confidence level chosen by _explain_finding
ConfidenceLevelAbove(confidence) ==
  IF confidence > HighConfidence THEN "high"
  ELSE IF confidence > MediumConfidence THEN "medium"
  ELSE "low"

ConfidenceLevel(confidence) ==
  IF confidence >= HighConfidence THEN "high"
  ELSE IF confidence >= MediumConfidence THEN "medium"
  ELSE "low"

\* ExplainabilityEngine._build_evidence_chain; a description is the text
\* it is made from
_build_evidence_chain(finding) ==
  (IF finding.location # ""
   THEN <<[type |-> "location", relevance |-> "high"]>> ELSE <<>>)
  \o (IF finding.evidence # <<>>
      THEN <<[type |-> "visual", relevance |-> "high"]>> ELSE <<>>)
  \o (IF finding.confidence >= HighConfidence
      THEN <<[type |-> "confidence", relevance |-> "high"]>> ELSE <<>>)

\* ExplainabilityEngine._generate_reasoning: the parts joined, each named
\* by what it reports
_generate_reasoning(finding) ==
  <<"identified">>
  \o (IF finding.location # "" THEN <<"location">> ELSE <<>>)
  \o (IF finding.severity # "" THEN <<"severity">> ELSE <<>>)
  \o <<"confidence">>
  \o (IF finding.evidence # <<>> THEN <<"evidence">> ELSE <<>>)

key_phrases ==
  <<"increased", "decreased", "enlarged", "opacity", "effusion",
    "consolidation", "atelectasis", "pneumothorax", "edema",
    "cardiomegaly", "blunting", "collapse", "device">>

KeyPhraseLimit == 5

\* ExplainabilityEngine._extract_key_evidence
_extract_key_evidence(evidence) ==
  LET found == SelectSeq(key_phrases,
                 LAMBDA phrase : IsSubstring(<<phrase>>, lower(evidence)))
  IN  SubSeq(found, 1, Min(KeyPhraseLimit, Len(found)))

\* ExplainabilityEngine._explain_finding
_explain_finding(finding) ==
  [confidence_level |-> ConfidenceLevel(finding.confidence),
   confidence_score |-> finding.confidence,
   evidence_chain   |-> _build_evidence_chain(finding),
   reasoning        |-> _generate_reasoning(finding),
   template         |-> ConfidenceLevel(finding.confidence),
   key_evidence     |-> _extract_key_evidence(finding.evidence)]

\* ExplainabilityEngine.generate_explanations
generate_explanations(findings) ==
  [i \in DOMAIN findings |->
     WithKey(findings[i], "explanation", _explain_finding(findings[i]))]

\* ExplainabilityEngine.generate_summary_explanation: the counts
generate_summary_explanation(findings) ==
  [total_findings           |-> Len(findings),
   high_confidence_findings |->
     Cardinality({i \in DOMAIN findings :
                    findings[i].confidence >= HighConfidence})]

----------------------------------------------------------------------------
(* backend/main.py: generate_report *)

RawFinding(name, evidence, confidence) ==
  JDict([finding    |-> JStr(name),
         location   |-> JStr("heart"),
         evidence   |-> JStr(evidence),
         confidence |-> confidence,
         severity   |-> JStr("mild")])

\* decoded model outputs: a complete report, a partial one (no metadata,
\* no confidence in one finding, recommendations as one text), and one
\* whose confidence is a word
PayloadFull ==
  [findings        |-> JList(<<RawFinding(Cardiomegaly, <<"enlarged", " heart">>,
                                          JNum(50))>>),
   impression      |-> JStr("normal"),
   recommendations |-> JList(<<>>),
   metadata        |-> JDict(EmptyDict)]

PayloadPartial ==
  [findings        |->
     JList(<<RawFinding(Mild_Cardiomegaly, <<>>, JNum(90)),
             JDict([finding |-> JStr(<<"Nodule">>)])>>),
   impression      |-> JStr("enlarged"),
   recommendations |-> JStr("follow-up")]

PayloadWord ==
  [findings   |-> JList(<<RawFinding(Cardiomegaly, <<>>, JStr("high"))>>),
   impression |-> JStr("normal")]

\* what the one call of client.chat.completions.create gives
ModelOutputs ==
  {[kind |-> "RateLimitError"], [kind |-> "OpenAIError"]}
    \cup {[kind |-> "text", text |-> t] :
            t \in {<<NotJson>>,
                   <<FenceJson, NotJson, Fence>>,
                   <<Prose, Document(PayloadFull)>>,
                   <<FenceJson, Document(PayloadFull)>>,
                   <<Document(PayloadWord)>>}}
    \cup {[kind |-> "text", text |-> t] :
            t \in UNION {{<<Document(payload)>>,
                          <<FenceJson, Document(payload), Fence>>,
                          <<Prose, Fence, Document(payload), Fence>>} :
                         payload \in {PayloadFull, PayloadPartial}}}

\* format_json_report_to_text, as far as a keyword can occur in it
format_json_report_to_text(report) ==
  Concat([i \in DOMAIN report.findings |->
            report.findings[i].finding \o <<" ">>
              \o report.findings[i].evidence \o <<" ">>])
    \o <<report.impression>> \o report.recommendations

\* compare_labels_with_report: radlex_dict.get(label, []) looks the label
\* up among the conditions
compare_labels_with_reportCaseSensitive(labels, report_text, radlex_dict) ==
  LET Keywords(label) ==
        Concat([c \in DOMAIN radlex_dict |->
                  IF <<radlex_dict[c][1]>> = label
                  THEN radlex_dict[c][2] ELSE <<>>])
      Matched(label) ==
        \E k \in DOMAIN Keywords(label) :
           IsSubstring(Keywords(label)[k], report_text)
  IN  [matched |-> SelectSeq(labels, Matched),
       missed  |-> SelectSeq(labels, LAMBDA label : ~Matched(label))]

compare_labels_with_report(labels, report_text, radlex_dict) ==
  LET Keywords(label) ==
        Concat([c \in DOMAIN radlex_dict |->
                  IF <<radlex_dict[c][1]>> = label
                  THEN radlex_dict[c][2] ELSE <<>>])
      Matched(label) ==
        \E k \in DOMAIN Keywords(label) :
           IsSubstring(lower(Keywords(label)[k]), lower(report_text))
  IN  [matched |-> SelectSeq(labels, Matched),
       missed  |-> SelectSeq(labels, LAMBDA label : ~Matched(label))]

\* round(x, 3) of x = num / den, where num is in thousandths
Round3(num, den) == Round2(num, den)

\* the accuracy metrics of generate_report; a ratio is in thousandths
AccuracyMetrics(chexpert_labels, improved_report) ==
  LET compared ==
        compare_labels_with_report(chexpert_labels,
                                   format_json_report_to_text(improved_report),
                                   RadlexTerms)
      matched == Len(compared.matched)
      total_labels == Len(chexpert_labels)
      total_findings == Len(improved_report.findings)
      \* precision and recall as fractions
      precision == IF total_findings > 0
                   THEN [num |-> matched, den |-> total_findings]
                   ELSE [num |-> 0, den |-> 1]
      recall == IF total_labels > 0
                THEN [num |-> matched, den |-> total_labels]
                ELSE [num |-> 0, den |-> 1]
      \* precision + recall, over the denominator precision.den * recall.den
      sum == precision.num * recall.den + recall.num * precision.den
  IN  [accuracy       |-> IF total_labels > 0
                          THEN Round3(1000 * matched, total_labels)
                          ELSE 1000,
       precision      |-> Round3(1000 * precision.num, precision.den),
       recall         |-> Round3(1000 * recall.num, recall.den),
       f1_score       |-> IF sum > 0
                          THEN Round3(1000 * 2 * precision.num * recall.num,
                                      sum)
                          ELSE 0,
       matched_labels |-> compared.matched,
       missed_labels  |-> compared.missed,
       total_labels   |-> total_labels,
       total_findings |-> total_findings]

\* the status of the request once log_feedback raised inside the inner
\* try of generate_report: `except Exception` prints a warning
StatusAfterLoggingPropagated(raised) == IF raised = "no" THEN 200 ELSE 500

StatusAfterLogging(raised) == 200

\* generate_report with OPENAI_API_KEY unset
generate_report_unconfigured ==
  /\ last' = [op |-> "generate_report", configured |-> FALSE,
              status |-> 500, model_calls |-> 0]
  /\ UNCHANGED <<feedback_logs, learning_data, rules, hash_order, disk, now,
                 calls, pending>>

\* generate_report with the key set, for an upload called image_name, the
\* outcome `output` of the model call and the labels of the upload
generate_report(image_name, output, chexpert_labels) ==
  LET generated == generate_json_report(output)
      report == Plain(generated.result)
      mapped_findings ==
        map_findings_to_ontology(report.findings, RadlexTerms, chexpert_labels)
      original_report == [report EXCEPT !.findings = mapped_findings]
      explained_findings == generate_explanations(mapped_findings)
      \* the engine is created for the request: its rules are empty
      learned == MineRules(<<>>, load_learning_data, DefaultMinSupport)
      improved_report == ImprovedReport(learned, original_report)
      out == LogFeedback(image_name, improved_report, None)
      Failed(exception) ==
        /\ last' = [op |-> "generate_report", configured |-> TRUE,
                    output |-> output, status |-> 500, model_calls |-> 1,
                    raised |-> exception]
        /\ UNCHANGED <<feedback_logs, learning_data, disk, now, calls>>
  IN  /\ IF generated.raised # "no" THEN Failed(generated.raised)
         ELSE IF LoadRaises(LearningDataFile) THEN Failed("UnicodeDecodeError")
         ELSE IF StatusAfterLogging(out.raised) # 200
         THEN /\ Len(calls) < MaxRequests
              /\ last' = [op |-> "generate_report", configured |-> TRUE,
                          output |-> output,
                          status |-> StatusAfterLogging(out.raised),
                          model_calls |-> 1, raised |-> out.raised,
                          logging |-> out.raised]
              /\ feedback_logs' = out.feedback_logs
              /\ learning_data' = out.learning_data
              /\ disk' = out.disk
              /\ now' = now + 1
              /\ calls' = Append(calls, [image |-> image_name,
                                         has_edits |-> FALSE])
         ELSE /\ Len(calls) < MaxRequests
              /\ last' =
                   [op |-> "generate_report", configured |-> TRUE,
                    output |-> output, status |-> 200, model_calls |-> 1,
                    raised |-> "no",
                    \* what log_feedback raised and the warning printed
                    logging |-> out.raised,
                    warning |-> IF out.raised = "no" THEN None
                                ELSE Some(out.raised),
                    response |->
                      [success           |-> TRUE,
                       report            |-> improved_report,
                       text_report       |->
                         format_json_report_to_text(improved_report),
                       explanations      |->
                         [findings |-> explained_findings,
                          summary  |->
                            generate_summary_explanation(explained_findings)],
                       ontology_mapping  |->
                         [validation |-> ValidateFindings(mapped_findings),
                          statistics |-> OntologyStatistics(mapped_findings)],
                       accuracy_metrics  |->
                         AccuracyMetrics(chexpert_labels, improved_report),
                       image_name        |-> image_name]]
              /\ feedback_logs' = out.feedback_logs
              /\ learning_data' = out.learning_data
              /\ disk' = out.disk
              /\ now' = now + 1
              /\ calls' = Append(calls, [image |-> image_name,
                                         has_edits |-> FALSE])
      /\ UNCHANGED <<rules, hash_order, pending>>

Generate ==
  \/ generate_report_unconfigured
  \/ \E image_name \in EngineImageNames, output \in ModelOutputs,
        chexpert_labels \in ChexpertLabelLists :
          generate_report(image_name, output, chexpert_labels)

----------------------------------------------------------------------------
(* backend/main.py: save_feedback *)

\* `if not feedback.edited_report`
RejectedNever(edited_report) == FALSE

Rejected(edited_report) == edited_report = None

save_feedback(image_name, original_report, edited_report) ==
  LET out == LogFeedback(image_name, original_report, edited_report)
      request == [image_name |-> image_name,
                  original_report |-> original_report,
                  edited_report |-> edited_report]
  IN  /\ IF Rejected(edited_report)
         THEN /\ last' = [op |-> "save_feedback", request |-> request,
                          status |-> 400]
              /\ UNCHANGED <<feedback_logs, learning_data, disk, now, calls>>
         ELSE /\ Len(calls) < MaxRequests
              /\ feedback_logs' = out.feedback_logs
              /\ learning_data' = out.learning_data
              /\ disk' = out.disk
              /\ now' = now + 1
              /\ calls' = Append(calls, [image |-> image_name,
                                         has_edits |-> edited_report # None])
              /\ IF out.raised # "no"
                 THEN last' = [op |-> "save_feedback", request |-> request,
                               status |-> 500, raised |-> out.raised]
                 ELSE last' = [op |-> "save_feedback", request |-> request,
                               status |-> 200,
                               response |->
                                 [success    |-> TRUE,
                                  entry_id   |-> out.entry.timestamp,
                                  edit_count |-> out.entry.edit_count,
                                  has_edits  |-> out.entry.has_edits]]
      /\ UNCHANGED <<rules, hash_order, pending>>

SaveFeedback ==
  \E image_name \in EngineImageNames, original_report \in Reports,
     edited_report \in OptReports :
       save_feedback(image_name, original_report, edited_report)

----------------------------------------------------------------------------

Init ==
  /\ feedback_logs = <<>>
  /\ learning_data = <<>>
  /\ rules = <<>>
  /\ hash_order \in Orderings(FindingNames)
  /\ disk = [file \in Files |-> "missing"]
  /\ now = 0
  /\ calls = <<>>
  /\ pending = [caller \in Callers |-> None]
  /\ last = [op |-> "init"]

Next == Record \/ Mine \/ Apply

Spec == Init /\ [][Next]_vars

\* the feedback store alone
NextStore == RecordImage

SpecStore == Init /\ [][NextStore]_vars

\* the feedback store and its statistics
NextStats == Record \/ get_feedback_statistics

SpecStats == Init /\ [][NextStats]_vars

\* the two endpoints of the backend that write the logs
NextService == Generate \/ SaveFeedback

SpecService == Init /\ [][NextService]_vars

\* a process that finds each log file missing or not decodable
Unreadable == {"missing", "bad_json", "bad_bytes"}

InitFiles ==
  /\ feedback_logs = <<>>
  /\ learning_data = <<>>
  /\ rules = <<>>
  /\ hash_order \in Orderings(FindingNames)
  /\ disk \in [Files -> Unreadable]
  /\ now = 0
  /\ calls = <<>>
  /\ pending = [caller \in Callers |-> None]
  /\ last = [op |-> "init"]

NextFiles == RecordFile \/ Mine \/ get_feedback_statistics

SpecFiles == InitFiles /\ [][NextFiles]_vars

\* mining alone, by an engine that finds a learning log written earlier:
\* one finding per record, each record an edit of image x.jpg
MinePairs ==
  {<<F(Cardiomegaly, 40), F(Cardiomegaly, 50)>>,
   <<F(Cardiomegaly, 50), F(Cardiomegaly, 65)>>,
   <<F(Cardiomegaly, 65), F(Cardiomegaly, 40)>>,
   <<F(Cardiomegaly, 50), F(Cardiomegaly, 90)>>,
   <<F(Cardiomegaly, 90), F(Cardiomegaly, 50)>>,
   <<F(Mild_Cardiomegaly, 50), F(Cardiomegaly, 90)>>,
   <<F(Mild_Cardiomegaly, 50), F(Mild_Cardiomegaly, 39)>>}

\* the feedback entry of the k-th call, which edited the one finding
MineEntry(k, pair) ==
  NewEntry(k, "x.jpg", Rep(<<pair[1]>>, "normal", <<>>),
           Some(Rep(<<pair[2]>>, "normal", <<>>)))

MineLogs ==
  UNION {[1..n -> MinePairs] : n \in 0..MaxMineEntries}

InitMine ==
  /\ \E pairs \in MineLogs :
        /\ feedback_logs = [k \in DOMAIN pairs |-> MineEntry(k, pairs[k])]
        /\ learning_data =
             [k \in DOMAIN pairs |-> LearningEntry(MineEntry(k, pairs[k]))]
        /\ disk = [file \in Files |->
                     IF pairs = <<>> THEN "missing" ELSE "json"]
        /\ now = Len(pairs)
  /\ rules = <<>>
  /\ hash_order \in Orderings(FindingNames)
  /\ calls = <<>>
  /\ pending = [caller \in Callers |-> None]
  /\ last = [op |-> "init"]

NextMine == Mine

SpecMine == InitMine /\ [][NextMine]_vars

\* an engine that outlives its learning log: between two calls the file
\* outputs/learning_data.json is removed, and load_learning_data finds
\* that path.exists() is false
RemoveLearningData ==
  /\ disk[LearningDataFile] = "json"
  /\ disk' = [disk EXCEPT ![LearningDataFile] = "missing"]
  /\ learning_data' = <<>>
  /\ last' = [op |-> "learning_data.json removed"]
  /\ UNCHANGED <<feedback_logs, rules, hash_order, now, calls, pending>>

NextReset == Mine \/ RemoveLearningData

SpecReset == InitMine /\ [][NextReset]_vars

\* mining by an engine over the file outputs/learning_data.json that it
\* finds at the path: records of image x.jpg that hold one finding, with or
\* without an edit of its name, and with or without a comment of the user
\* that spells the edit out
EditOfName == <<F(Mild_Cardiomegaly, 50), F(Cardiomegaly, 90)>>

EditOfNameText == Mild_Cardiomegaly \o <<Arrow>> \o Cardiomegaly

FoundComments == {<<>>, EditOfNameText}

FoundRecord(has_edits, comment) ==
  [timestamp         |-> 0,
   image             |-> "x.jpg",
   original_findings |-> <<EditOfName[1]>>,
   edited_findings   |-> IF has_edits THEN <<EditOfName[2]>> ELSE <<>>,
   has_edits         |-> has_edits,
   edit_count        |-> IF has_edits THEN 1 ELSE 0,
   user_feedback     |-> comment]

FoundRecords ==
  {FoundRecord(has_edits, comment) :
     has_edits \in BOOLEAN, comment \in FoundComments}

MaxFoundEntries == 2

FoundLogs ==
  UNION {[1..n -> FoundRecords] : n \in 0..MaxFoundEntries}

InitFound ==
  /\ \E found \in FoundLogs :
        /\ learning_data =
             [k \in DOMAIN found |-> [found[k] EXCEPT !.timestamp = k]]
        /\ disk = [file \in Files |->
                     IF file = LearningDataFile /\ found # <<>>
                     THEN "json" ELSE "missing"]
        /\ now = Len(found)
  /\ feedback_logs = <<>>
  /\ rules = <<>>
  /\ hash_order \in Orderings(FindingNames)
  /\ calls = <<>>
  /\ pending = [caller \in Callers |-> None]
  /\ last = [op |-> "init"]

NextFound == Mine

SpecFound == InitFound /\ [][NextFound]_vars

\* the backend generating reports over a learning log written earlier,
\* which holds nothing or one edit
InitLearned ==
  /\ \E pairs \in {<<>>} \cup {<<pair>> : pair \in MinePairs} :
        /\ feedback_logs = [k \in DOMAIN pairs |-> MineEntry(k, pairs[k])]
        /\ learning_data =
             [k \in DOMAIN pairs |-> LearningEntry(MineEntry(k, pairs[k]))]
        /\ disk = [file \in Files |->
                     IF pairs = <<>> THEN "missing" ELSE "json"]
        /\ now = Len(pairs)
  /\ rules = <<>>
  /\ hash_order \in Orderings(FindingNames)
  /\ calls = <<>>
  /\ pending = [caller \in Callers |-> None]
  /\ last = [op |-> "init"]

NextLearned == Generate

SpecLearned == InitLearned /\ [][NextLearned]_vars

\* the normaliser alone, on decoded payloads with keys missing and values
\* of other types
Absent == [type |-> "absent"]

\* the dict that holds the keys of d given a value
Present(d) == [k \in {key \in DOMAIN d : d[key] # Absent} |-> d[k]]

\* the confidence of a raw finding: a number inside and outside 0..1, a
\* text float() parses, one it does not, null, or no such key
RawConfidences ==
  {Absent, JNull, JStr("0.9"), JStr("high"),
   JNum(0), JNum(90), JNum(100), JNum(150), JNum(-10)}

RawFindingWith(name, confidence) ==
  JDict(Present([finding    |-> JStr(name),
                 location   |-> JStr("heart"),
                 confidence |-> confidence]))

RawFindingsValues ==
  {Absent, JNull, JNum(1), JList(<<>>),
   JList(<<JNull, RawFindingWith(Cardiomegaly, JNum(90))>>),
   JList(<<RawFindingWith(Mild_Cardiomegaly, JNum(90)), JNum(1),
           RawFindingWith(Cardiomegaly, Absent)>>)}
    \cup {JList(<<RawFindingWith(Cardiomegaly, confidence)>>) :
            confidence \in RawConfidences}

RawImpressions == {Absent, JNull, JNum(3), JStr("normal")}

RawRecommendations ==
  {Absent, JNull, JStr("follow-up"), JList(<<>>),
   JList(<<JStr("follow-up"), JStr("rest")>>)}

RawMetadata == {Absent, JNull, JDict(EmptyDict), JDict([view |-> JStr("PA")])}

\* the decoded payloads handed to the normaliser
RawPayloads ==
  {Present([findings        |-> findings,
            impression      |-> impression,
            recommendations |-> recommendations,
            metadata        |-> metadata]) :
     findings \in RawFindingsValues, impression \in RawImpressions,
     recommendations \in RawRecommendations, metadata \in RawMetadata}

\* json.loads has returned a payload
InitNormalize ==
  /\ feedback_logs = <<>>
  /\ learning_data = <<>>
  /\ rules = <<>>
  /\ hash_order \in Orderings(FindingNames)
  /\ disk = [file \in Files |-> "missing"]
  /\ now = 0
  /\ calls = <<>>
  /\ pending = [caller \in Callers |-> None]
  /\ \E report \in RawPayloads :
        last = [op |-> "json.loads", report |-> report]

Normalize ==
  /\ last.op = "json.loads"
  /\ LET outcome == _normalize_report_structure(last.report)
     IN  last' = IF outcome.raised = "no"
                 THEN [op |-> "_normalize_report_structure",
                       report |-> last.report, raised |-> "no",
                       result |-> outcome.result]
                 ELSE [op |-> "_normalize_report_structure",
                       report |-> last.report, raised |-> outcome.raised]
  /\ UNCHANGED <<feedback_logs, learning_data, rules, hash_order, disk,
                 now, calls, pending>>

NextNormalize == Normalize

SpecNormalize == InitNormalize /\ [][NextNormalize]_vars

\* the ontology mapper alone, on findings whose confidence is any number
\* the normaliser lets through, given as a fraction of hundredths: 0.554
\* is 554/10
OntologyConfidences ==
  {[num |-> 0, den |-> 1], [num |-> 50, den |-> 1], [num |-> 85, den |-> 1],
   [num |-> 95, den |-> 1], [num |-> 100, den |-> 1],
   [num |-> 554, den |-> 10], [num |-> 556, den |-> 10],
   [num |-> 150, den |-> 1]}

OntologyNames == {Cardiomegaly, <<"Atelectasis">>, <<"Nodule">>}

OntologyFindings ==
  {[finding |-> name, evidence |-> <<>>, confidence |-> confidence] :
     name \in OntologyNames, confidence \in OntologyConfidences}

MaxOntologyFindings == 2

OntologyInputs ==
  UNION {[1..n -> OntologyFindings] : n \in 1..MaxOntologyFindings}

\* the normalised findings and the labels of the image are at hand
InitOntology ==
  /\ feedback_logs = <<>>
  /\ learning_data = <<>>
  /\ rules = <<>>
  /\ hash_order \in Orderings(FindingNames)
  /\ disk = [file \in Files |-> "missing"]
  /\ now = 0
  /\ calls = <<>>
  /\ pending = [caller \in Callers |-> None]
  /\ \E findings \in OntologyInputs, chexpert_labels \in ChexpertLabelLists :
        last = [op |-> "OntologyProcessor", findings |-> findings,
                chexpert_labels |-> chexpert_labels]

MapToOntology ==
  /\ last.op = "OntologyProcessor"
  /\ last' = [op |-> "map_findings_to_ontology",
              findings |-> last.findings,
              chexpert_labels |-> last.chexpert_labels,
              result |-> MapFindings(last.findings, RadlexTerms,
                                     last.chexpert_labels,
                                     [i \in DOMAIN last.findings |->
                                        last.findings[i].confidence])]
  /\ UNCHANGED <<feedback_logs, learning_data, rules, hash_order, disk,
                 now, calls, pending>>

NextOntology == MapToOntology

SpecOntology == InitOntology /\ [][NextOntology]_vars

\* the explainability engine alone, on one finding whose confidence is at,
\* next to and away from the two thresholds
ExplainConfidences == {0, 39, 40, 41, 69, 70, 71, 100}

ExplainFindings ==
  {[finding |-> Cardiomegaly, location |-> location, evidence |-> evidence,
    confidence |-> confidence, severity |-> severity] :
     location \in {"", "heart"}, evidence \in {<<>>, <<"enlarged", " heart">>},
     confidence \in ExplainConfidences, severity \in {"", "mild"}}

\* the normalised findings are at hand
InitExplain ==
  /\ feedback_logs = <<>>
  /\ learning_data = <<>>
  /\ rules = <<>>
  /\ hash_order \in Orderings(FindingNames)
  /\ disk = [file \in Files |-> "missing"]
  /\ now = 0
  /\ calls = <<>>
  /\ pending = [caller \in Callers |-> None]
  /\ \E finding \in ExplainFindings :
        last = [op |-> "ExplainabilityEngine", findings |-> <<finding>>]

Explain ==
  /\ last.op = "ExplainabilityEngine"
  /\ last' = [op |-> "generate_explanations",
              findings |-> last.findings,
              result |-> generate_explanations(last.findings)]
  /\ UNCHANGED <<feedback_logs, learning_data, rules, hash_order, disk,
                 now, calls, pending>>

NextExplain == Explain

SpecExplain == InitExplain /\ [][NextExplain]_vars

\* the accuracy metrics alone, on the final report of a request and the
\* labels of its image
PleuralEffusion == <<"Pleural Effusion">>

EvaluatorLabels == {Cardiomegaly, PleuralEffusion, <<"Atelectasis">>}

MaxLabels == 3

\* lists of distinct labels
LabelLists ==
  UNION {{labels \in [1..n -> EvaluatorLabels] :
            \A i, j \in 1..n : labels[i] = labels[j] => i = j} :
         n \in 0..MaxLabels}

EvaluatorFindings ==
  {[finding |-> name, evidence |-> evidence] :
     name \in {Cardiomegaly, cardiomegaly, <<"Nodule">>},
     evidence \in {<<>>, <<"effusion">>}}

MaxEvaluatorFindings == 2

EvaluatorReports ==
  {Rep(findings, impression, <<>>) :
     findings \in UNION {[1..n -> EvaluatorFindings] :
                           n \in 0..MaxEvaluatorFindings},
     impression \in {"normal", "effusion"}}

\* the improved report and the labels are at hand
InitEvaluate ==
  /\ feedback_logs = <<>>
  /\ learning_data = <<>>
  /\ rules = <<>>
  /\ hash_order \in Orderings(FindingNames)
  /\ disk = [file \in Files |-> "missing"]
  /\ now = 0
  /\ calls = <<>>
  /\ pending = [caller \in Callers |-> None]
  /\ \E labels \in LabelLists, report \in EvaluatorReports :
        last = [op |-> "apply_rules_to_report", labels |-> labels,
                report |-> report]

Evaluate ==
  /\ last.op = "apply_rules_to_report"
  /\ "labels" \in DOMAIN last
  /\ last' = [op |-> "accuracy_metrics", labels |-> last.labels,
              report |-> last.report,
              result |-> AccuracyMetrics(last.labels, last.report)]
  /\ UNCHANGED <<feedback_logs, learning_data, rules, hash_order, disk,
                 now, calls, pending>>

NextEvaluate == Evaluate

SpecEvaluate == InitEvaluate /\ [][NextEvaluate]_vars

\* two callers of log_feedback at the same time, each making one call
NextConcurrent == Begin \/ Write \/ Learn \/ Finish

SpecConcurrent == Init /\ [][NextConcurrent]_vars

----------------------------------------------------------------------------
(* Properties of the feedback store, checked under SpecStore *)

EntriesFor(image_name) ==
  {i \in DOMAIN feedback_logs : feedback_logs[i].image = image_name}

UneditedEntriesFor(image_name) ==
  {i \in EntriesFor(image_name) : ~feedback_logs[i].has_edits}

Unedited(image_name) == [image |-> image_name, has_edits |-> FALSE]
Edited(image_name) == [image |-> image_name, has_edits |-> TRUE]

TwoUneditedCalls(image_name) ==
  /\ Len(calls) >= 2
  /\ calls[1] = Unedited(image_name)
  /\ calls[2] = Unedited(image_name)

ThenEditedCall(image_name) ==
  /\ TwoUneditedCalls(image_name)
  /\ Len(calls) = 3
  /\ calls[3] = Edited(image_name)

\* C1 as stated: from an empty log, two log_feedback calls without
\* edited_report for one image leave exactly one entry for that image, and a
\* third call for it with an edited_report appends a second entry, so the
\* log then holds two entries for the image.
C1_ThirdCallAppends ==
  \A image_name \in ImageNames :
    /\ (TwoUneditedCalls(image_name) /\ Len(calls) = 2)
         => Cardinality(EntriesFor(image_name)) = 1
    /\ ThenEditedCall(image_name)
         => Cardinality(EntriesFor(image_name)) = 2

\* C1 as amended: from an empty log, two log_feedback calls without
\* edited_report for one image leave exactly one entry for that image, and a
\* third call for it with an edited_report replaces that unedited entry: the
\* log still holds exactly one entry for the image, the third call's entry,
\* with has_edits = true.
C1_ThirdCallReplaces ==
  \A image_name \in ImageNames :
    /\ (TwoUneditedCalls(image_name) /\ Len(calls) = 2)
         => /\ Cardinality(EntriesFor(image_name)) = 1
            /\ \A i \in EntriesFor(image_name) :
                  /\ ~feedback_logs[i].has_edits
                  /\ feedback_logs[i].timestamp = 2
    /\ ThenEditedCall(image_name)
         => /\ Cardinality(EntriesFor(image_name)) = 1
            /\ \A i \in EntriesFor(image_name) :
                  /\ feedback_logs[i].has_edits
                  /\ feedback_logs[i].timestamp = 3

C1_Witness ==
  /\ ThenEditedCall("x.jpg")
  /\ Len(feedback_logs) = 1
  /\ feedback_logs[1].has_edits

\* C2 as stated: every log_feedback call appends exactly one record to the
\* learning log, with or without edited_report: after n calls from an empty
\* learning log it holds n records, the i-th one that of the i-th call.
C2_EveryCallAppends ==
  /\ Len(learning_data) = Len(calls)
  /\ \A i \in DOMAIN learning_data :
        /\ learning_data[i].timestamp = i
        /\ learning_data[i].image = calls[i].image
        /\ learning_data[i].has_edits = calls[i].has_edits

C4_EditedEntriesKept ==
  [][\A i \in DOMAIN feedback_logs :
        feedback_logs[i].has_edits
          => /\ i \in DOMAIN feedback_logs'
             /\ feedback_logs'[i] = feedback_logs[i]]_vars

C4_Witness ==
  /\ Len(calls) = 3
  /\ calls[1] = Edited("x.jpg")
  /\ calls[2] = Unedited("x.jpg")
  /\ calls[3] = Edited("x.jpg")
  /\ feedback_logs[1].has_edits
  /\ feedback_logs[1].timestamp = 1
  /\ Len(feedback_logs) = 2

Recorded == last.op = "log_feedback" /\ last.raised # "UnicodeDecodeError"

\* the stated sum for an original and an edited report
StatedEditCount(original, edited) ==
  LET n == Len(original.findings)
      m == Len(edited.findings)
      differing == {i \in 1..n : i <= m
                                   /\ original.findings[i] # edited.findings[i]}
  IN  (IF n >= m THEN n - m ELSE m - n)
      + Cardinality(differing)
      + (IF original.impression = edited.impression THEN 0 ELSE 1)
      + (IF original.recommendations = edited.recommendations THEN 0 ELSE 1)

\* C12: the entry log_feedback stores for a call with an edited_report has
\* edit_count = |len(original findings) - len(edited findings)| + number of
\* positionally paired findings that differ + 1 if the impressions differ
\* + 1 if the recommendations differ; the entry stored for a call without
\* edited_report has edit_count = 0 and has_edits = false; has_edits is
\* true exactly when an edited_report was passed.
C12_EditCount ==
  Recorded =>
    LET entry == last.entry
        call == calls[Len(calls)]
    IN  /\ \E i \in DOMAIN feedback_logs : feedback_logs[i] = entry
        /\ entry.has_edits <=> call.has_edits
        /\ call.has_edits <=> entry.edited_report # None
        /\ entry.edited_report # None
             => entry.edit_count = StatedEditCount(entry.original_report,
                                                   entry.edited_report[1])
        /\ entry.edited_report = None
             => entry.edit_count = 0 /\ ~entry.has_edits

\* a one-finding report edited into a three-finding one with another
\* impression and other recommendations, in a log that holds an unedited
\* entry too
C12_Witness ==
  /\ Recorded
  /\ last.entry.original_report = ReportA
  /\ last.entry.edited_report = Some(ReportC)
  /\ last.entry.edit_count = 5
  /\ \E i \in DOMAIN feedback_logs :
        ~feedback_logs[i].has_edits /\ feedback_logs[i].edit_count = 0
  /\ \E i \in DOMAIN feedback_logs :
        /\ feedback_logs[i].original_report = ReportB
        /\ feedback_logs[i].edited_report = Some(ReportA)
        /\ feedback_logs[i].edit_count = 1

----------------------------------------------------------------------------
(* Properties of the statistics, checked under SpecStats *)

StatisticsReturned ==
  last.op = "get_feedback_statistics" /\ last.raised = "no"

StatisticsFields ==
  {"total_entries", "entries_with_edits", "total_edits",
   "average_edits_per_entry", "edit_rate"}

\* C13 as stated: for every state of the feedback log, the empty log
\* included, get_feedback_statistics returns all five fields total_entries,
\* entries_with_edits, total_edits, average_edits_per_entry and edit_rate:
\* total_entries is the length of the log, entries_with_edits the number of
\* entries with has_edits = true, total_edits the sum of edit_count, and
\* edit_rate is entries_with_edits / total_entries (to the hundredth).
C13_FiveFieldsFromWholeLog ==
  StatisticsReturned =>
    LET result == last.result
        n == Len(feedback_logs)
        edited == Cardinality({i \in DOMAIN feedback_logs :
                                 feedback_logs[i].has_edits})
    IN  /\ DOMAIN result = StatisticsFields
        /\ result.total_entries = n
        /\ result.entries_with_edits = edited
        /\ result.total_edits
             = SumSeq([i \in DOMAIN feedback_logs |->
                         feedback_logs[i].edit_count])
        /\ n > 0 => 2 * Abs(result.edit_rate * n - 100 * edited) <= n

----------------------------------------------------------------------------
(* Properties of the two endpoints, checked under SpecService *)

Generated == last.op = "generate_report" /\ last.configured

ResponseFields ==
  {"report", "explanations", "ontology_mapping", "accuracy_metrics"}

\* C15: when the automatic log_feedback of generate_report raises, the
\* request does not fail: the response with report, explanations,
\* ontology_mapping and accuracy_metrics is returned with success, and the
\* failure is reported as a warning only.
C15_LoggingFailureIsWarning ==
  (Generated /\ "logging" \in DOMAIN last /\ last.logging # "no") =>
    /\ last.status = 200
    /\ last.response.success
    /\ ResponseFields \subseteq DOMAIN last.response
    /\ last.warning = Some(last.logging)

C15_Witness ==
  /\ Generated
  /\ last.status = 200
  /\ last.logging = "AttributeError"
  /\ last.warning = Some("AttributeError")
  /\ Len(last.response.report.findings) = 2
  /\ Len(last.response.explanations.findings) = 2
  /\ Len(feedback_logs) = 1
  /\ learning_data = <<>>

\* C16: save_feedback without an edited_report fails with a 4xx status
\* before any side effect, neither the feedback log nor the learning log
\* changing; with an edited_report it returns has_edits = true and the
\* edit_count of the entry it stored.
C16_SaveFeedbackValidates ==
  [][last'.op = "save_feedback" =>
       /\ last'.request.edited_report = None
            => /\ last'.status >= 400
               /\ last'.status <= 499
               /\ UNCHANGED <<feedback_logs, learning_data, disk>>
       /\ last'.request.edited_report # None
            => /\ last'.status = 200
               /\ last'.response.has_edits
               /\ \E i \in DOMAIN feedback_logs' :
                     /\ feedback_logs'[i].timestamp = last'.response.entry_id
                     /\ feedback_logs'[i].image = last'.request.image_name
                     /\ feedback_logs'[i].edited_report
                          = last'.request.edited_report
                     /\ feedback_logs'[i].edit_count
                          = last'.response.edit_count
                     /\ feedback_logs'[i].has_edits]_vars

\* a rejected request that found both logs holding an entry
C16_Witness ==
  /\ last.op = "save_feedback"
  /\ last.status = 400
  /\ Len(feedback_logs) = 1
  /\ Len(learning_data) = 1
  /\ feedback_logs[1].edit_count = 5

\* the response text holds one JSON document, bare or between the opening
\* marker of a fenced block and the next marker
DecodableAfterFallback(text) ==
  \/ Len(text) = 1 /\ text[1].u = "json"
  \/ \E i \in DOMAIN text :
       /\ IF \E j \in DOMAIN text : text[j] = FenceJson
          THEN text[i] = FenceJson /\ \A j \in 1..(i - 1) : text[j] # FenceJson
          ELSE text[i] = Fence /\ \A j \in 1..(i - 1) : text[j] # Fence
       /\ i + 2 \in DOMAIN text
       /\ text[i + 1].u = "json"
       /\ text[i + 2] \in {Fence, FenceJson}

ModelFailed(output) ==
  output.kind # "text" \/ ~DecodableAfterFallback(output.text)

\* C17: when the model call fails, or its output cannot be decoded even
\* after the one fallback that strips the code fence, generate_report ends
\* in a service error: the model was called exactly once, no report is
\* returned, and neither the feedback log nor the learning log is written;
\* an output that holds a report inside a code fence is decoded by the
\* fallback and answered.
C17_ModelFailureIsServiceError ==
  [][(last'.op = "generate_report" /\ last'.configured) =>
       /\ ModelFailed(last'.output)
            => /\ last'.status = 500
               /\ "response" \notin DOMAIN last'
               /\ last'.model_calls = 1
               /\ UNCHANGED <<feedback_logs, learning_data, disk>>
       /\ (/\ ~ModelFailed(last'.output)
           /\ \E i \in DOMAIN last'.output.text :
                 /\ last'.output.text[i].u = "json"
                 /\ last'.output.text[i].payload
                      \in {PayloadFull, PayloadPartial})
            => /\ last'.status = 200
               /\ last'.model_calls = 1]_vars

\* a fenced text that is not JSON, answered with an error while both logs
\* hold an entry
C17_Witness ==
  /\ Generated
  /\ last.output = [kind |-> "text", text |-> <<FenceJson, NotJson, Fence>>]
  /\ last.status = 500
  /\ Len(feedback_logs) = 1
  /\ Len(learning_data) = 1

----------------------------------------------------------------------------
(* Properties of reading the log files, checked under SpecFiles *)

Corrupted == {"bad_json", "bad_bytes"}

\* C14 as stated: a log file that is missing or cannot be decoded is read
\* as an empty log without raising: log_feedback, get_feedback_statistics
\* and mine_rules complete normally on it (the statistics of an empty log,
\* no rules), and a log_feedback on a feedback log that cannot be decoded
\* leaves a log holding exactly the one new entry.
C14_UnreadableReadAsEmpty ==
  [][/\ (/\ last'.op = "log_feedback"
         /\ \E file \in Files : disk[file] \in Unreadable)
          => last'.raised = "no"
     /\ (last'.op = "log_feedback" /\ disk[FeedbackLogFile] \in Corrupted)
          => /\ feedback_logs' = <<last'.entry>>
             /\ disk'[FeedbackLogFile] = "json"
     /\ (/\ last'.op = "get_feedback_statistics"
         /\ disk[FeedbackLogFile] \in Unreadable)
          => /\ last'.raised = "no"
             /\ last'.result.total_entries = 0
     /\ (last'.op = "mine_rules" /\ disk[LearningDataFile] \in Unreadable)
          => /\ last'.raised = "no"
             /\ last'.result = <<>>]_vars

----------------------------------------------------------------------------
(* Properties of the learning engine, checked under Spec *)

Applied == last.op = "apply_rules_to_report" /\ last.raised = "no"
MinedLast == last.op = "mine_rules" /\ last.raised = "no"

\* after apply_rules_to_report, `rules` is the rule list the call used
ConfidenceRules ==
  {k \in DOMAIN rules : rules[k].type = "confidence_adjustment"}

Tagged(finding) == "confidence_adjusted" \in DOMAIN finding

\* the rule's pattern is a case-insensitive substring of the finding's name
PatternInName(finding_name, rule) ==
  IsSubstring(lower(rule.pattern), lower(finding_name))

\* C5 as stated: apply_rules_to_report adjusts a finding's confidence (and
\* tags it confidence_adjusted) exactly when some confidence_adjustment
\* rule's pattern is a case-insensitive substring of the finding's name; a
\* finding whose name contains no rule pattern is returned unchanged.
C5_AdjustedIffPatternInName ==
  Applied =>
    \A i \in DOMAIN last.report.findings :
      LET finding == last.report.findings[i]
          improved == last.result.findings[i]
          matching == {k \in ConfidenceRules :
                         PatternInName(finding.finding, rules[k])}
      IN  /\ Tagged(improved) <=> matching # {}
          /\ matching = {} => improved = finding

RulesMatching(report, candidates) ==
  {k \in candidates :
     \E i \in DOMAIN report.findings :
        PatternInName(report.findings[i].finding, rules[k])}

\* C6 as stated: rules_applied is the number of rules, of any of the three
\* types, whose pattern substring-matches the name of at least one finding
\* of the report passed in.
C6_CountsRulesOfAnyType ==
  Applied =>
    last.result.rules_applied
      = Cardinality(RulesMatching(last.report, DOMAIN rules))

\* C6 as amended: rules_applied is the number of confidence_adjustment
\* rules whose pattern substring-matches the name of at least one finding
\* of the report passed in; edit_pattern and finding_association rules are
\* never counted.
C6_CountsConfidenceRules ==
  Applied =>
    last.result.rules_applied
      = Cardinality(RulesMatching(last.report, ConfidenceRules))

C6_Witness ==
  /\ Applied
  /\ last.result.rules_applied >= 1
  /\ \E k \in RulesMatching(last.report, DOMAIN rules) :
        rules[k].type = "finding_association"

\* the logs after one log_feedback of Cardiomegaly at 0.5 edited to 0.9
OneCardiomegalyEdit ==
  /\ now = 1
  /\ Len(feedback_logs) = 1
  /\ feedback_logs[1].original_report = ReportA
  /\ feedback_logs[1].edited_report = Some(ReportB)
  /\ Len(learning_data) = 1
  /\ learning_data[1].original_findings = ReportA.findings
  /\ learning_data[1].edited_findings = ReportB.findings

\* C7: after one log_feedback of a report with the single finding
\* Cardiomegaly at 0.5 and an edited report giving it 0.9, into empty logs,
\* mine_rules(1) returns a confidence_adjustment rule for Cardiomegaly with
\* adjustment 0.40, and apply_rules_to_report on a report with Cardiomegaly
\* at 0.5 returns the finding at 0.90 with confidence_adjusted = true.
C7_EndToEnd ==
  OneCardiomegalyEdit =>
    /\ (MinedLast /\ last.min_support = 1)
         => \E k \in DOMAIN last.result :
               /\ last.result[k].type = "confidence_adjustment"
               /\ last.result[k].pattern = Cardiomegaly
               /\ last.result[k].adjustment = 40
    /\ (Applied /\ last.report = ReportA)
         => /\ last.result.findings[1].finding = Cardiomegaly
            /\ last.result.findings[1].confidence = 90
            /\ Tagged(last.result.findings[1])
            /\ last.result.findings[1].confidence_adjusted

C7_Witness ==
  /\ OneCardiomegalyEdit
  /\ Applied
  /\ last.report = ReportA
  /\ \E k \in DOMAIN rules : rules[k].type = "edit_pattern"
  /\ last.result.findings[1].confidence = 90

\* C8: every finding returned by apply_rules_to_report has a confidence in
\* [0, 1], also when several confidence_adjustment rules match it and are
\* applied one after the other.
C8_ConfidenceInUnitInterval ==
  Applied =>
    \A i \in DOMAIN last.result.findings :
      /\ last.result.findings[i].confidence >= 0
      /\ last.result.findings[i].confidence <= 100

C8_Witness ==
  /\ Applied
  /\ \E i \in DOMAIN last.report.findings :
       \E k1, k2 \in ConfidenceRules :
          /\ k1 # k2
          /\ NameInPattern(last.report.findings[i].finding, rules[k1])
          /\ NameInPattern(last.report.findings[i].finding, rules[k2])
          /\ rules[k1].adjustment > 0
          /\ rules[k2].adjustment > 0
          /\ last.report.findings[i].confidence
               + rules[k1].adjustment + rules[k2].adjustment > 100
          /\ last.result.findings[i].confidence = 100

FirstIndex(seq, x) ==
  CHOOSE i \in DOMAIN seq : seq[i] = x /\ \A j \in 1..(i - 1) : seq[j] # x

TypeRank(type) ==
  CASE type = "edit_pattern"          -> 1
    [] type = "confidence_adjustment" -> 2
    [] type = "finding_association"   -> 3

\* where in the pass over the log the rule's pattern first occurs
FirstSeen(rule) ==
  CASE rule.type = "edit_pattern" ->
         FirstIndex(EditEmits(learning_data), rule.pattern)
    [] rule.type = "confidence_adjustment" ->
         LET emits == ConfidenceEmits(learning_data)
         IN  FirstIndex([i \in DOMAIN emits |-> emits[i][1]], rule.pattern)
    [] rule.type = "finding_association" ->
         LET co == CoOccurrences(learning_data)
         IN  FirstIndex(Concat([i \in DOMAIN co |-> <<co[i][1], co[i][2]>>]),
                        rule.pattern)

DiscoveredBefore(r1, r2) ==
  \/ TypeRank(r1.type) < TypeRank(r2.type)
  \/ r1.type = r2.type /\ FirstSeen(r1) < FirstSeen(r2)

\* C9: mine_rules returns its rules by support descending, and rules of
\* equal support in discovery order: edit patterns, then confidence
\* adjustments, then finding associations, each in the order of their first
\* occurrence over the log.
C9_SortedBySupportStable ==
  MinedLast =>
    \A i, j \in DOMAIN last.result :
      i < j =>
        /\ last.result[i].support >= last.result[j].support
        /\ last.result[i].support = last.result[j].support
             => DiscoveredBefore(last.result[i], last.result[j])

C9_Witness ==
  /\ MinedLast
  /\ \E i, j \in DOMAIN last.result :
        /\ i < j
        /\ last.result[i].support > last.result[j].support
        /\ TypeRank(last.result[i].type) > TypeRank(last.result[j].type)
  /\ \E i, j \in DOMAIN last.result :
        /\ i < j
        /\ last.result[i].support = last.result[j].support
        /\ last.result[i].type = last.result[j].type
  /\ \E i, j \in DOMAIN last.result :
        /\ i < j
        /\ last.result[i].support = last.result[j].support
        /\ last.result[i].type # last.result[j].type

----------------------------------------------------------------------------
(* Properties of mining, checked under SpecMine *)

\* the positions <<k, i>> of the learning log where an original finding
\* called `name` is paired with an edited finding whose confidence differs
\* from its own by more than 0.10
QualifyingPairs(name) ==
  {p \in (DOMAIN learning_data) \X (1..3) :
     LET entry == learning_data[p[1]]
     IN  /\ p[2] \in DOMAIN entry.original_findings
         /\ p[2] \in DOMAIN entry.edited_findings
         /\ entry.original_findings[p[2]].finding = name
         /\ Abs(entry.edited_findings[p[2]].confidence
                  - entry.original_findings[p[2]].confidence) > 10}

\* edited confidence minus original confidence at a position
SignedDelta(p) ==
  learning_data[p[1]].edited_findings[p[2]].confidence
    - learning_data[p[1]].original_findings[p[2]].confidence

RECURSIVE SumOfDeltas(_)
SumOfDeltas(P) ==
  IF P = {} THEN 0
  ELSE LET p == CHOOSE q \in P : TRUE
       IN  SignedDelta(p) + SumOfDeltas(P \ {p})

ConfidenceRulesFor(name) ==
  {k \in DOMAIN last.result :
     /\ last.result[k].type = "confidence_adjustment"
     /\ last.result[k].pattern = name}

----------------------------------------------------------------------------
(* Properties of the normaliser, checked under SpecNormalize *)

Normalized == last.op = "_normalize_report_structure"

\* the dict items of the findings list of the payload, in its order
RawDictItems(report) ==
  IF "findings" \in DOMAIN report /\ report.findings.type = "list"
  THEN SelectSeq(report.findings.value, LAMBDA item : item.type = "dict")
  ELSE <<>>

\* C18: for every decoded payload with any of findings, impression,
\* recommendations, metadata missing or of another type, the normaliser
\* does not raise and returns the four keys: findings the dict items of
\* the payload in its order, each with a confidence between 0 and 1 (0.5
\* when the key is missing), impression a text, recommendations a
\* sequence, metadata a mapping.
C18_NormalizerTotal ==
  Normalized =>
    /\ last.raised = "no"
    /\ DOMAIN last.result
         = {"findings", "impression", "recommendations", "metadata"}
    /\ LET items == RawDictItems(last.report)
       IN  /\ Len(last.result.findings) = Len(items)
           /\ \A i \in DOMAIN items :
                /\ last.result.findings[i].finding
                     = Get(items[i].value, "finding", JStr(<<>>))
                /\ last.result.findings[i].confidence \in 0..100
                /\ "confidence" \notin DOMAIN items[i].value
                     => last.result.findings[i].confidence = 50
    /\ last.result.impression.type = "str"
    /\ DOMAIN last.result.recommendations
         = 1..Len(last.result.recommendations)
    /\ \A key \in DOMAIN last.result.metadata : key \in STRING

----------------------------------------------------------------------------
(* Properties of the ontology mapper, checked under SpecOntology *)

Mapped == last.op = "map_findings_to_ontology"

\* the number of vocabularies that matched a mapped finding
VocabularyHits(finding) ==
  (IF finding.ontology_mapping.radlex_conditions # <<>> THEN 1 ELSE 0)
    + (IF finding.ontology_mapping.chexpert_labels # <<>> THEN 1 ELSE 0)

\* C19: for every finding, mapping_confidence lies between the original
\* confidence and min(1.0, original + 0.2), is min(1.0, original + 0.1 * the
\* number of vocabularies that matched), and is no smaller for a finding of
\* the same original confidence that matched more vocabularies.
C19_MappingConfidenceRange ==
  Mapped =>
    \A i \in DOMAIN last.result :
      LET num == last.result[i].confidence.num
          den == last.result[i].confidence.den
          mapping_confidence ==
            last.result[i].ontology_mapping.mapping_confidence
          hits == VocabularyHits(last.result[i])
      IN  /\ num <= mapping_confidence * den
          /\ mapping_confidence * den <= Min(100 * den, num + 20 * den)
          /\ mapping_confidence * den
               = Min(100 * den, num + 10 * hits * den)
          /\ \A j \in DOMAIN last.result :
               (/\ last.result[j].confidence = last.result[i].confidence
                /\ hits <= VocabularyHits(last.result[j]))
                 => mapping_confidence
                      <= last.result[j].ontology_mapping.mapping_confidence

----------------------------------------------------------------------------
(* Properties of the explainability engine, checked under SpecExplain *)

Explained == last.op = "generate_explanations"

\* the place of an evidence type in the stated order
EvidenceRank(type) ==
  CASE type = "location" -> 1 [] type = "visual" -> 2
    [] type = "confidence" -> 3

\* C20: a finding is labelled high exactly when its confidence is at least
\* 0.7, medium exactly when it is at least 0.4 and below 0.7, low otherwise;
\* the evidence chain holds a confidence entry exactly when the label is
\* high, that entry is the last one, and the entries are in the order
\* location, visual, confidence.
C20_LevelsAndEvidenceOrder ==
  Explained =>
    \A i \in DOMAIN last.result :
      LET confidence == last.findings[i].confidence
          explanation == last.result[i].explanation
          chain == explanation.evidence_chain
      IN  /\ explanation.confidence_level = "high" <=> confidence >= 70
          /\ explanation.confidence_level = "medium"
               <=> (confidence >= 40 /\ confidence < 70)
          /\ explanation.confidence_level = "low" <=> confidence < 40
          /\ (\E k \in DOMAIN chain : chain[k].type = "confidence")
               <=> explanation.confidence_level = "high"
          /\ \A k \in DOMAIN chain :
               chain[k].type = "confidence" => k = Len(chain)
          /\ \A k, l \in DOMAIN chain :
               k < l => EvidenceRank(chain[k].type) < EvidenceRank(chain[l].type)

\* a finding with a location and evidence whose confidence is exactly 0.7:
\* labelled high, its chain is location, visual, confidence
C20_Witness ==
  /\ Explained
  /\ last.findings[1].confidence = 70
  /\ last.result[1].explanation.confidence_level = "high"
  /\ [k \in DOMAIN last.result[1].explanation.evidence_chain |->
        last.result[1].explanation.evidence_chain[k].type]
       = <<"location", "visual", "confidence">>

----------------------------------------------------------------------------
(* Properties of the accuracy metrics, checked under SpecEvaluate *)

Evaluated == last.op = "accuracy_metrics"

\* the keywords registered for a label
RegisteredKeywords(label) ==
  Concat([c \in DOMAIN RadlexTerms |->
            IF <<RadlexTerms[c][1]>> = label THEN RadlexTerms[c][2]
            ELSE <<>>])

\* one of the label's keywords occurs in the text, whatever the case
KeywordOccurs(label, text) ==
  \E k \in DOMAIN RegisteredKeywords(label) :
     IsSubstring(lower(RegisteredKeywords(label)[k]), lower(text))

\* matched and missed are the labels with and without a keyword in the
\* text of the report, each in the order of the labels
MatchedAndMissedPartition ==
  LET text == format_json_report_to_text(last.report)
  IN  /\ last.result.matched_labels
           = SelectSeq(last.labels, LAMBDA label : KeywordOccurs(label, text))
      /\ last.result.missed_labels
           = SelectSeq(last.labels, LAMBDA label : ~KeywordOccurs(label, text))
      /\ Len(last.result.matched_labels) + Len(last.result.missed_labels)
           = Len(last.labels)

\* the labels Cardiomegaly, Pleural Effusion and a report that holds a
\* keyword of Cardiomegaly only
ScenarioCardiomegalyOnly ==
  /\ last.labels = <<Cardiomegaly, PleuralEffusion>>
  /\ KeywordOccurs(Cardiomegaly, format_json_report_to_text(last.report))
  /\ ~KeywordOccurs(PleuralEffusion, format_json_report_to_text(last.report))

ScenarioResult ==
  ScenarioCardiomegalyOnly =>
    /\ last.result.matched_labels = <<Cardiomegaly>>
    /\ last.result.missed_labels = <<PleuralEffusion>>
    /\ last.result.accuracy = 500

\* C21 as stated: matched and missed partition the labels by keyword
\* occurrence, in order, and accuracy is exactly |matched| / |labels|
\* (in thousandths); in the scenario it is 0.5.
C21_AccuracyIsExactRatio ==
  Evaluated =>
    /\ MatchedAndMissedPartition
    /\ last.result.accuracy * Len(last.labels)
         = 1000 * Len(last.result.matched_labels)
    /\ ScenarioResult

\* C21: matched and missed partition the labels by case-insensitive
\* keyword occurrence, in the order of the labels; accuracy is
\* |matched| / |labels| rounded to three decimals, and 1.0 for an empty
\* label list; in the scenario matched is Cardiomegaly, missed is Pleural
\* Effusion and accuracy is 0.5.
C21_AccuracyIsRoundedRatio ==
  Evaluated =>
    /\ MatchedAndMissedPartition
    /\ IF last.labels = <<>>
       THEN last.result.accuracy = 1000
       ELSE \* the nearest thousandth: at most half a thousandth away
            2 * Abs(last.result.accuracy * Len(last.labels)
                      - 1000 * Len(last.result.matched_labels))
              <= Len(last.labels)
    /\ ScenarioResult

\* the scenario, with the finding named in capitals while the keyword is
\* in lower case
C21_Witness ==
  /\ Evaluated
  /\ ScenarioCardiomegalyOnly
  /\ last.report.findings # <<>>
  /\ \A i \in DOMAIN last.report.findings :
        last.report.findings[i].finding = Cardiomegaly
  /\ last.result.matched_labels = <<Cardiomegaly>>
  /\ last.result.accuracy = 500

----------------------------------------------------------------------------
(* Properties of concurrent log_feedback calls, checked under
   SpecConcurrent *)

\* both calls are over
BothReturned == \A caller \in Callers : At(caller, "done")

\* both calls were for the same image
SameImage ==
  \A c1, c2 \in Callers : Position(c1).entry.image = Position(c2).entry.image

\* both callers loaded the feedback log before either wrote it: neither
\* loaded list holds the entry of the other
BothReadBeforeEitherWrote ==
  /\ \A caller \in Callers : Position(caller).order > 0
  /\ \A c1, c2 \in Callers : Position(c1).logs = Position(c2).logs

Holds(logs, entry) == \E i \in DOMAIN logs : logs[i] = entry

\* C22: after two log_feedback calls for the same image that both loaded
\* the feedback log before either wrote it, the log is what the last
\* writer wrote, the list it loaded with its own entry, and the entry of
\* the other caller is not in it.
C22_LastWriterWins ==
  (BothReturned /\ SameImage /\ BothReadBeforeEitherWrote) =>
    \A first, second \in Callers :
      Position(first).order < Position(second).order =>
        /\ feedback_logs
             = Upsert(Position(second).logs, Position(second).entry)
        /\ Holds(feedback_logs, Position(second).entry)
        /\ ~Holds(feedback_logs, Position(first).entry)

\* two calls with edits for the same image, each of which would add an
\* entry of its own, both returned without an error, and the log holds
\* one entry: that of the caller that wrote second
C22_Witness ==
  /\ BothReturned /\ SameImage /\ BothReadBeforeEitherWrote
  /\ \A caller \in Callers :
       Position(caller).entry.has_edits /\ Position(caller).raised = "no"
  /\ Len(feedback_logs) = 1
  /\ \E second \in Callers :
       Position(second).order = 2 /\ feedback_logs[1] = Position(second).entry

----------------------------------------------------------------------------
(* Retention of feedback entries, checked under SpecStore *)

ImagesOf(logs) == {logs[i].image : i \in DOMAIN logs}

\* C23: a log_feedback call never shortens the feedback log: it leaves
\* the length as it is exactly when the log held an unedited entry of the
\* image, and then only the first such entry changes; otherwise it adds
\* one entry at the end; every image with an entry keeps one.
C23_EntriesNeverDeleted ==
  [][last'.op = "log_feedback" =>
       LET i == ExistingEntryIndex(feedback_logs, last'.entry.image)
       IN  /\ Len(feedback_logs') >= Len(feedback_logs)
           /\ IF i # 0
              THEN /\ Len(feedback_logs') = Len(feedback_logs)
                   /\ \A k \in DOMAIN feedback_logs :
                        k # i => feedback_logs'[k] = feedback_logs[k]
                   /\ feedback_logs'[i] = last'.entry
              ELSE /\ Len(feedback_logs') = Len(feedback_logs) + 1
                   /\ SubSeq(feedback_logs', 1, Len(feedback_logs))
                        = feedback_logs
           /\ ImagesOf(feedback_logs) \subseteq ImagesOf(feedback_logs')]_vars

\* after three calls the log holds two entries, one of them with edits:
\* one call replaced an unedited entry and the edited entry was kept
C23_Witness ==
  /\ last.op = "log_feedback"
  /\ now = 3
  /\ Len(feedback_logs) = 2
  /\ feedback_logs[1].has_edits
  /\ feedback_logs[1].image = feedback_logs[2].image
  /\ feedback_logs[2].timestamp = 3

----------------------------------------------------------------------------
(* Properties of the engine's cached rules, checked under SpecReset *)

\* C24: after every mine_rules call, whatever self.rules was before, it is
\* the list the call returned, which is what the current learning log and
\* min_support give, and it is empty when the log is empty.
C24_RecomputedFromScratch ==
  MinedLast =>
    /\ rules = last.result
    /\ rules = MineReturn(load_learning_data, last.min_support)
    /\ load_learning_data = <<>> => rules = <<>>

----------------------------------------------------------------------------
(* Support of the mined rules, checked under Spec *)

\* C25: every rule returned by mine_rules(min_support), of any of the
\* three types, has a support of at least min_support.
C25_SupportAtLeastMinSupport ==
  MinedLast =>
    \A k \in DOMAIN last.result : last.result[k].support >= last.min_support

----------------------------------------------------------------------------
(* Lazy mining by apply_rules_to_report, checked under Spec *)

\* C26: apply_rules_to_report mines (with the default min_support) exactly
\* when the engine holds no rules; when it holds some it leaves them as
\* they are and applies them, whatever the learning log holds by then.
C26_MinesOnlyWithoutCachedRules ==
  [][(last'.op = "apply_rules_to_report" /\ last'.raised = "no") =>
       IF rules = <<>>
       THEN /\ rules' = MineReturn(load_learning_data, DefaultMinSupport)
            /\ last'.result = ImprovedReport(rules', last'.report)
       ELSE /\ rules' = rules
            /\ last'.result = ImprovedReport(rules, last'.report)]_vars

\* rules were mined, a record was appended after that, and the report
\* returned is the one the cached rules give, not the one that the rules
\* of the log as it is now would give
C26_Witness ==
  /\ Applied
  /\ rules # <<>>
  /\ Len(learning_data) = 2
  /\ \A min_support \in MinSupports :
       rules # Mined(load_learning_data, min_support)
  /\ last.result = ImprovedReport(rules, last.report)
  /\ last.result
       # ImprovedReport(Mined(load_learning_data, DefaultMinSupport),
                        last.report)

----------------------------------------------------------------------------
(* Failing log_feedback calls, checked under SpecStore *)

\* C27: a log_feedback call that ends in an error leaves the feedback log
\* and the learning log as they were before the call.
C27_FailedCallChangesNothing ==
  [][(last'.op = "log_feedback" /\ last'.raised # "no") =>
       /\ feedback_logs' = feedback_logs
       /\ learning_data' = learning_data]_vars

----------------------------------------------------------------------------
(* Explanations in the response of generate_report, checked under
   SpecLearned *)

\* C28: in every successful response, the explanation of each finding
\* states the confidence that the finding has in the returned report, and
\* the level of that confidence.
C28_ExplanationMatchesReport ==
  (Generated /\ last.status = 200) =>
    LET report == last.response.report
        explained == last.response.explanations.findings
    IN  /\ Len(explained) = Len(report.findings)
        /\ \A i \in DOMAIN report.findings :
             /\ explained[i].explanation.confidence_score
                  = report.findings[i].confidence
             /\ explained[i].explanation.confidence_level
                  = ConfidenceLevel(report.findings[i].confidence)

----------------------------------------------------------------------------
(* Confidence of the edit patterns, checked under SpecFound *)

EditPatternRules == {k \in DOMAIN rules : rules[k].type = "edit_pattern"}

\* the records that _count_pattern_occurrences counts for a pattern
RecordsHolding(pattern) ==
  {k \in DOMAIN learning_data :
     IsSubstring(pattern, EntryText(learning_data[k]))}

RecordsWithEdits == {k \in DOMAIN learning_data : learning_data[k].has_edits}

----------------------------------------------------------------------------
(* Ranges of the accuracy metrics, checked under SpecEvaluate *)

\* a metric in thousandths that lies between 0 and 1
InUnitInterval(metric) == metric \in 0..1000

\* C30: for every list of labels and every report, accuracy, precision,
\* recall and f1_score lie between 0 and 1, and the matched labels are no
\* more than the findings that precision divides by.
C30_MetricsInUnitInterval ==
  Evaluated =>
    /\ InUnitInterval(last.result.accuracy)
    /\ InUnitInterval(last.result.precision)
    /\ InUnitInterval(last.result.recall)
    /\ InUnitInterval(last.result.f1_score)
    /\ (last.result.total_findings > 0 =>
          Len(last.result.matched_labels) <= last.result.total_findings)

====
